---- MODULE Spec2Model ----
(***************************************************************************)
(* State-machine model of the salute_speech client:                        *)
(*   - TokenManager (utils/token.py): cached OAuth token and its refresh,  *)
(*     stepped at the granularity of the attribute reads and writes that   *)
(*     worker threads can interleave;                                      *)
(*   - AudioValidator._validate_params (utils/audio.py);                   *)
(*   - SberSpeechRecognition, TaskPoller and Audio.Transcriptions.create   *)
(*     (speech_recognition.py): upload -> submit -> poll -> download ->    *)
(*     convert, run by concurrent callers against a remote service.        *)
(* Spec      : concurrent transcriptions.create calls.                     *)
(* LiveSpec  : Spec with weak fairness on every caller's next step.        *)
(* TokenSpec : concurrent direct callers of TokenManager.get_valid_token.  *)
(* ApiSpec   : direct calls of sr.async_recognize, ResponseParser and      *)
(*             SpeechRecognitionConfig.                                    *)
(***************************************************************************)
EXTENDS Integers, Sequences, FiniteSets, TLC

(* ------------------------------ bounds --------------------------------- *)
\* last instant of the modelled clock (milliseconds)
MaxTime == 1
\* status queries one poll loop may receive a non-terminal answer to
MaxPolls == 2
\* direct get_valid_token calls per caller in TokenSpec
MaxCalls == 2

\* callers that share one client; those in Transcribers run transcriptions.create,
\* the others use the client's token_manager directly
Calls == {1, 2}
Transcribers == {1}

(* ------------------------- values and sentinels ------------------------ *)
\* Python None for an int attribute / for a str attribute
NoExpiry == -1
NoToken == "<None>"
\* a key absent from a JSON object / a JSON null
Missing == "<missing>"
Null == "<null>"

NoStatus == -1
NoError == [type |-> "none", status_code |-> NoStatus, message |-> <<>>]
Error(t, code, msg) == [type |-> t, status_code |-> code, message |-> msg]

(* ------------------------ OAuth endpoint responses --------------------- *)
ExpiryValues == 0..(MaxTime + 1)
TokenNames == <<"tok_a", "tok_b", "tok_c", "tok_d", "tok_e", "tok_f">>

\* raw JSON value of the expires_at field
JInt(n) == [kind |-> "int", n |-> n]
JNumStr(n) == [kind |-> "numstr", n |-> n]
JBadStr == [kind |-> "str", n |-> 0]
JNull == [kind |-> "null", n |-> 0]
JMissing == [kind |-> "missing", n |-> 0]

OAuthResponse(code, valid, tok, exp) ==
    [status_code |-> code, text |-> IF code = 200 THEN "body" ELSE "Unauthorized",
     valid_json |-> valid, access_token |-> tok, expires_at |-> exp]

\* every successful response carries its own token: the token names the response
GoodOAuthResponses ==
    {OAuthResponse(200, TRUE, TokenNames[e + 1], JNumStr(e)) : e \in ExpiryValues}
      \cup {OAuthResponse(200, TRUE, TokenNames[e + 1], JInt(e)) : e \in ExpiryValues}

OddOAuthResponses ==
    {OAuthResponse(200, TRUE, "", JInt(MaxTime + 1)),
     OAuthResponse(200, TRUE, Null, JInt(MaxTime + 1))}

BadOAuthResponses ==
    {OAuthResponse(401, TRUE, Missing, JMissing),
     OAuthResponse(200, FALSE, Missing, JMissing),
     OAuthResponse(200, TRUE, Missing, JNumStr(MaxTime + 1)),
     OAuthResponse(200, TRUE, TokenNames[1], JMissing),
     OAuthResponse(200, TRUE, TokenNames[1], JBadStr),
     OAuthResponse(200, TRUE, TokenNames[1], JNull)}

OAuthResponses == GoodOAuthResponses \cup OddOAuthResponses \cup BadOAuthResponses

\* the (token, expiry) pairs a single refresh response can deliver
DeliveredPairs ==
    {<<IF r.access_token = Null THEN NoToken ELSE r.access_token, r.expires_at.n>> :
        r \in GoodOAuthResponses \cup OddOAuthResponses}

(* ------------------------------ state ---------------------------------- *)
VARIABLES
    now,             \* time() * 1000
    token,           \* TokenManager.token
    token_expiry,    \* TokenManager.token_expiry
    pc,              \* per caller: position in create / get_valid_token caller
    tpc,             \* per caller: position inside get_valid_token
    scope,           \* per caller: scope argument of the running get_valid_token
    token_value,     \* per caller: local of get_valid_token
    expiry_value,    \* per caller: local of get_valid_token
    retval,          \* per caller: value returned by the last get_valid_token
    err,             \* per caller: exception that left the last call
    ncalls,          \* per caller: get_valid_token calls made directly
    seen,            \* per caller: the cache and the clock as the running call's check found them
    nreq,            \* per caller: OAuth requests sent by the running call
    raced,           \* per caller: another caller wrote the cache during the call
    uploads,         \* service: number of files stored by data:upload
    tasks,           \* service: status of every recognition task, by task number
    args,            \* per caller: arguments of create (file, language)
    locals,          \* per caller: locals of the running create
    response,        \* per caller: TranscriptionResponse returned by create
    log,             \* per caller: steps create has performed, in order
    call,            \* per caller: the low-level call made directly (function, arguments)
    result           \* per caller: what the direct low-level call returned

tokvars == <<token, token_expiry, tpc, scope, token_value, expiry_value, retval,
             seen, nreq, raced>>
pipevars == <<uploads, tasks, args, response, log>>
apivars == <<call, result>>
vars == <<now, pc, err, ncalls, tokvars, pipevars, locals, apivars>>

NoArgs == [file |-> "none", language |-> "none", debug_dump |-> "none"]
NoParams == <<"none", 0, 0>>
NoLocals == [params |-> NoParams, file_id |-> "none", task_id |-> "none",
             response_file_id |-> "none", result_data |-> "none"]
NoResponse == [duration |-> 0, language |-> "none", text |-> <<>>, segments |-> <<>>,
               status |-> "none", task_id |-> "none"]

NotSeen == [expiry |-> NoExpiry, now |-> -1, token |-> NoToken]

NoCall == [fn |-> "none"]
NoResult == [fn |-> "none"]

Init ==
    /\ now = 0
    /\ token = NoToken
    /\ token_expiry = NoExpiry
    /\ pc = [c \in Calls |-> "idle"]
    /\ tpc = [c \in Calls |-> "none"]
    /\ scope = [c \in Calls |-> "none"]
    /\ token_value = [c \in Calls |-> NoToken]
    /\ expiry_value = [c \in Calls |-> NoExpiry]
    /\ retval = [c \in Calls |-> NoToken]
    /\ err = [c \in Calls |-> NoError]
    /\ ncalls = [c \in Calls |-> 0]
    /\ seen = [c \in Calls |-> NotSeen]
    /\ nreq = [c \in Calls |-> 0]
    /\ raced = [c \in Calls |-> FALSE]
    /\ uploads = 0
    /\ tasks = <<>>
    /\ args = [c \in Calls |-> NoArgs]
    /\ locals = [c \in Calls |-> NoLocals]
    /\ response = [c \in Calls |-> NoResponse]
    /\ log = [c \in Calls |-> <<>>]
    /\ call = [c \in Calls |-> NoCall]
    /\ result = [c \in Calls |-> NoResult]

(* ------------------------------ clock ---------------------------------- *)
Tick ==
    /\ now < MaxTime
    /\ now' = now + 1
    /\ UNCHANGED <<pc, err, ncalls, tokvars, pipevars, locals>>
    /\ UNCHANGED apivars

(* --------------------------- TokenManager ------------------------------ *)
Scopes == {"SALUTE_SPEECH_PERS", "SALUTE_SPEECH_CORP"}
DefaultScope == "SALUTE_SPEECH_PERS"

\* int(response_json["expires_at"])
IntOf(v) ==
    CASE v.kind \in {"int", "numstr"} -> [ok |-> TRUE, val |-> v.n, exc |-> "none"]
      [] v.kind = "str" -> [ok |-> FALSE, val |-> 0, exc |-> "ValueError"]
      [] OTHER -> [ok |-> FALSE, val |-> 0, exc |-> "TypeError"]

\* TokenManager._refresh_token, from the response on: value returned or exception
RefreshResult(r) ==
    LET Fail(e) == [ok |-> FALSE, token_value |-> NoToken, expiry_value |-> NoExpiry,
                    err |-> e]
        parsing(cause) == Error("TokenParsingError", NoStatus,
                                <<"Failed to parse token response", cause>>)
    IN  IF r.status_code # 200
          THEN Fail(Error("TokenRequestError", r.status_code, <<r.text>>))
        ELSE IF ~r.valid_json THEN Fail(parsing("ValueError"))
        ELSE IF r.access_token = Missing THEN Fail(parsing("KeyError access_token"))
        ELSE IF r.expires_at.kind = "missing" THEN Fail(parsing("KeyError expires_at"))
        ELSE IF ~IntOf(r.expires_at).ok
          THEN IF IntOf(r.expires_at).exc = "ValueError"
                 THEN Fail(parsing("ValueError"))
                 ELSE Fail(Error(IntOf(r.expires_at).exc, NoStatus, <<>>))
        ELSE [ok |-> TRUE,
              token_value |-> IF r.access_token = Null THEN NoToken ELSE r.access_token,
              expiry_value |-> IntOf(r.expires_at).val,
              err |-> NoError]

\* variant: the cached expiry is never trusted
ExpiryNeedsRefreshAlways(expiry, t) == TRUE

\* variant: a cached expiry is trusted for good
ExpiryNeedsRefreshWhenUnset(expiry, t) == expiry = NoExpiry

\* self.token_expiry is None or time() * 1000 > self.token_expiry
ExpiryNeedsRefresh(expiry, t) == expiry = NoExpiry \/ t > expiry

\* not self.token
TokenNeedsRefresh(tok) == tok \in {NoToken, ""}

InGetValidToken(c) == tpc[c] \notin {"none", "done"}

\* callers that are inside get_valid_token while c writes the cache
MarkRaced(c) == [d \in Calls |-> IF d # c /\ InGetValidToken(d) THEN TRUE ELSE raced[d]]

\* get_valid_token is left: its frame (arguments, locals, bookkeeping) is gone
LeaveGetValidToken(c) ==
    /\ scope' = [scope EXCEPT ![c] = "none"]
    /\ token_value' = [token_value EXCEPT ![c] = NoToken]
    /\ expiry_value' = [expiry_value EXCEPT ![c] = NoExpiry]
    /\ seen' = [seen EXCEPT ![c] = NotSeen]
    /\ nreq' = [nreq EXCEPT ![c] = 0]

\* an exception leaves get_valid_token and the frames above it
TokenRaise(c, e) ==
    /\ tpc' = [tpc EXCEPT ![c] = "none"]
    /\ err' = [err EXCEPT ![c] = e]
    /\ pc' = [pc EXCEPT ![c] = IF @ = "get_valid_token" THEN "idle" ELSE "raised"]
    /\ raced' = [raced EXCEPT ![c] = FALSE]
    /\ locals' = [locals EXCEPT ![c] = NoLocals]
    /\ LeaveGetValidToken(c)

\* entry of get_valid_token(scope)
EnterGetValidToken(c, s) ==
    /\ tpc' = [tpc EXCEPT ![c] = "check_expiry"]
    /\ scope' = [scope EXCEPT ![c] = s]
    /\ retval' = [retval EXCEPT ![c] = NoToken]
    /\ UNCHANGED <<token_value, expiry_value, seen, nreq, raced>>

\* a direct caller of token_manager.get_valid_token(scope)
GetValidTokenCall(c, s) ==
    /\ pc[c] = "idle"
    /\ ncalls[c] < MaxCalls
    /\ pc' = [pc EXCEPT ![c] = "get_valid_token"]
    /\ ncalls' = [ncalls EXCEPT ![c] = @ + 1]
    /\ err' = [err EXCEPT ![c] = NoError]
    /\ EnterGetValidToken(c, s)
    /\ UNCHANGED <<pipevars, locals, now, token, token_expiry>>
    /\ UNCHANGED apivars

\* first two disjuncts of the condition: read token_expiry and the clock
CheckExpiry(c) ==
    /\ tpc[c] = "check_expiry"
    /\ seen' = [seen EXCEPT ![c] = [expiry |-> token_expiry, now |-> now,
                                    token |-> token]]
    /\ tpc' = [tpc EXCEPT ![c] = IF ExpiryNeedsRefresh(token_expiry, now)
                                   THEN "refresh" ELSE "check_token"]
    /\ UNCHANGED <<pipevars, locals, now, pc, err, ncalls, token, token_expiry, scope, token_value,
                   expiry_value, retval, nreq, raced>>
    /\ UNCHANGED apivars

\* variant: the cached token serves the default scope only
CheckTokenDefaultScopeOnly(c) ==
    /\ tpc[c] = "check_token"
    /\ seen' = [seen EXCEPT ![c].token = token]
    /\ tpc' = [tpc EXCEPT ![c] = IF TokenNeedsRefresh(token) \/ scope[c] # DefaultScope
                                   THEN "refresh" ELSE "return"]
    /\ UNCHANGED <<pipevars, locals, now, pc, err, ncalls, token, token_expiry, scope, token_value,
                   expiry_value, retval, nreq, raced>>
    /\ UNCHANGED apivars

\* last disjunct of the condition: read token
CheckToken(c) ==
    /\ tpc[c] = "check_token"
    /\ seen' = [seen EXCEPT ![c].token = token]
    /\ tpc' = [tpc EXCEPT ![c] = IF TokenNeedsRefresh(token) THEN "refresh" ELSE "return"]
    /\ UNCHANGED <<pipevars, locals, now, pc, err, ncalls, token, token_expiry, scope, token_value,
                   expiry_value, retval, nreq, raced>>
    /\ UNCHANGED apivars

\* self._refresh_token(scope): one POST to the OAuth endpoint and its parsing
RefreshToken(c) ==
    /\ tpc[c] = "refresh"
    /\ \E r \in OAuthResponses :
         LET res == RefreshResult(r) IN
         IF res.ok
           THEN /\ nreq' = [nreq EXCEPT ![c] = @ + 1]
                /\ token_value' = [token_value EXCEPT ![c] = res.token_value]
                /\ expiry_value' = [expiry_value EXCEPT ![c] = res.expiry_value]
                /\ tpc' = [tpc EXCEPT ![c] = "set_token"]
                /\ UNCHANGED <<pc, err, scope, seen, raced, locals>>
           ELSE TokenRaise(c, res.err)
    /\ UNCHANGED <<pipevars, now, ncalls, token, token_expiry, retval>>
    /\ UNCHANGED apivars

\* self.token = token_value
SetToken(c) ==
    /\ tpc[c] = "set_token"
    /\ token' = token_value[c]
    /\ tpc' = [tpc EXCEPT ![c] = "set_expiry"]
    /\ raced' = MarkRaced(c)
    /\ UNCHANGED <<pipevars, locals, now, pc, err, ncalls, token_expiry, scope, token_value, expiry_value,
                   retval, seen, nreq>>
    /\ UNCHANGED apivars

\* self.token_expiry = expiry_value
SetExpiry(c) ==
    /\ tpc[c] = "set_expiry"
    /\ token_expiry' = expiry_value[c]
    /\ tpc' = [tpc EXCEPT ![c] = "return"]
    /\ raced' = MarkRaced(c)
    /\ UNCHANGED <<pipevars, locals, now, pc, err, ncalls, token, scope, token_value, expiry_value,
                   retval, seen, nreq>>
    /\ UNCHANGED apivars

\* assert self.token is not None; return self.token
ReturnToken(c) ==
    /\ tpc[c] = "return"
    /\ IF token = NoToken
         THEN /\ TokenRaise(c, Error("AssertionError", NoStatus, <<>>))
              /\ UNCHANGED retval
         ELSE /\ retval' = [retval EXCEPT ![c] = token]
              /\ tpc' = [tpc EXCEPT ![c] = IF pc[c] = "get_valid_token" THEN "none" ELSE "done"]
              /\ pc' = [pc EXCEPT ![c] = IF @ = "get_valid_token" THEN "idle" ELSE @]
              /\ raced' = [raced EXCEPT ![c] = FALSE]
              /\ LeaveGetValidToken(c)
              /\ UNCHANGED <<err, locals>>
    /\ UNCHANGED <<pipevars, now, ncalls, token, token_expiry>>
    /\ UNCHANGED apivars

TokenStep(c) ==
    \/ CheckExpiry(c)
    \/ CheckToken(c)
    \/ RefreshToken(c)
    \/ SetToken(c)
    \/ SetExpiry(c)
    \/ ReturnToken(c)

(* --------------------------- AudioValidator ---------------------------- *)
\* AudioValidator.VALID_ENCODINGS
VALID_ENCODINGS ==
    [e \in {"PCM_S16LE", "OPUS", "MP3", "FLAC", "ALAW", "MULAW"} |->
        CASE e = "OPUS" -> [max_channels |-> 1, has_range |-> FALSE, min_rate |-> 0, max_rate |-> 0]
          [] e = "MP3"  -> [max_channels |-> 2, has_range |-> FALSE, min_rate |-> 0, max_rate |-> 0]
          [] e = "FLAC" -> [max_channels |-> 8, has_range |-> FALSE, min_rate |-> 0, max_rate |-> 0]
          [] OTHER      -> [max_channels |-> 8, has_range |-> TRUE, min_rate |-> 8000,
                            max_rate |-> 96000]]

\* AudioValidator.FORMAT_MAP
FORMAT_MAP ==
    [k \in {"MP3", "OPUS", "FLAC", "PCM", "ALAW", "MULAW", "WAV"} |->
        IF k \in {"PCM", "WAV"} THEN "PCM_S16LE" ELSE k]

ValidationError(msg) == Error("ValidationError", NoStatus, msg)

\* variant: every parameter triple is accepted
ValidateParamsAcceptAll(audio_encoding, sample_rate, channels_count) ==
    [ok |-> TRUE, err |-> NoError, value |-> <<audio_encoding, sample_rate, channels_count>>]

\* variant: the ends of the sample-rate range are excluded
ValidateParamsOpenRange(audio_encoding, sample_rate, channels_count) ==
    LET rules == VALID_ENCODINGS[audio_encoding]
        Fail(msg) == [ok |-> FALSE, err |-> ValidationError(msg), value |-> NoParams]
    IN  IF audio_encoding \notin DOMAIN VALID_ENCODINGS
          THEN Fail(<<"Invalid audio encoding", audio_encoding>>)
        ELSE IF channels_count > rules.max_channels
          THEN Fail(<<"Too many channels", audio_encoding>>)
        ELSE IF rules.has_range
                /\ ~(rules.min_rate < sample_rate /\ sample_rate < rules.max_rate)
          THEN Fail(<<"Sample rate out of valid range", audio_encoding>>)
        ELSE [ok |-> TRUE, err |-> NoError,
              value |-> <<audio_encoding, sample_rate, channels_count>>]

\* variant: max_channels channels are already too many
ValidateParamsBelowMaxChannels(audio_encoding, sample_rate, channels_count) ==
    LET rules == VALID_ENCODINGS[audio_encoding]
        Fail(msg) == [ok |-> FALSE, err |-> ValidationError(msg), value |-> NoParams]
    IN  IF audio_encoding \notin DOMAIN VALID_ENCODINGS
          THEN Fail(<<"Invalid audio encoding", audio_encoding>>)
        ELSE IF channels_count >= rules.max_channels
          THEN Fail(<<"Too many channels", audio_encoding>>)
        ELSE IF rules.has_range
                /\ ~(rules.min_rate <= sample_rate /\ sample_rate <= rules.max_rate)
          THEN Fail(<<"Sample rate out of valid range", audio_encoding>>)
        ELSE [ok |-> TRUE, err |-> NoError,
              value |-> <<audio_encoding, sample_rate, channels_count>>]

\* variant: the channel count handed back is the encoding's maximum
ValidateParamsMaxChannels(audio_encoding, sample_rate, channels_count) ==
    LET rules == VALID_ENCODINGS[audio_encoding]
        Fail(msg) == [ok |-> FALSE, err |-> ValidationError(msg), value |-> NoParams]
    IN  IF audio_encoding \notin DOMAIN VALID_ENCODINGS
          THEN Fail(<<"Invalid audio encoding", audio_encoding>>)
        ELSE IF channels_count > rules.max_channels
          THEN Fail(<<"Too many channels", audio_encoding>>)
        ELSE IF rules.has_range
                /\ ~(rules.min_rate <= sample_rate /\ sample_rate <= rules.max_rate)
          THEN Fail(<<"Sample rate out of valid range", audio_encoding>>)
        ELSE [ok |-> TRUE, err |-> NoError,
              value |-> <<audio_encoding, sample_rate, rules.max_channels>>]

\* AudioValidator._validate_params
ValidateParams(audio_encoding, sample_rate, channels_count) ==
    LET rules == VALID_ENCODINGS[audio_encoding]
        Fail(msg) == [ok |-> FALSE, err |-> ValidationError(msg), value |-> NoParams]
    IN  IF audio_encoding \notin DOMAIN VALID_ENCODINGS
          THEN Fail(<<"Invalid audio encoding", audio_encoding>>)
        ELSE IF channels_count > rules.max_channels
          THEN Fail(<<"Too many channels", audio_encoding>>)
        ELSE IF rules.has_range
                /\ ~(rules.min_rate <= sample_rate /\ sample_rate <= rules.max_rate)
          THEN Fail(<<"Sample rate out of valid range", audio_encoding>>)
        ELSE [ok |-> TRUE, err |-> NoError,
              value |-> <<audio_encoding, sample_rate, channels_count>>]

\* what mediainfo reports for the audio streams the callers pass in
Files == {"empty.bin", "speech.wav", "music.mp3", "stereo.opus"}
MediaInfo(f) ==
    CASE f = "speech.wav"  -> [codec_name |-> "PCM_S16LE", sample_rate |-> 16000, channels |-> 1]
      [] f = "music.mp3"   -> [codec_name |-> "MP3", sample_rate |-> 44100, channels |-> 2]
      [] f = "stereo.opus" -> [codec_name |-> "OPUS", sample_rate |-> 48000, channels |-> 2]
      [] OTHER             -> [codec_name |-> "", sample_rate |-> 0, channels |-> 0]

\* a binary stream over a file: its read position, and the operations
\* _detect_params uses on it (sizes are counted in blocks)
FileSize(f) ==
    CASE f = "speech.wav"  -> 3
      [] f = "music.mp3"   -> 2
      [] f = "stereo.opus" -> 2
      [] OTHER             -> 0
Stream(name, pos) == [name |-> name, pos |-> pos]
Tell(file) == file.pos
Seek(file, pos) == [file EXCEPT !.pos = pos]
\* file.read(): everything from the position to the end
Read(file) ==
    [file EXCEPT !.pos = IF @ < FileSize(file.name) THEN FileSize(file.name) ELSE @]

\* variant: the position is put back only when detection succeeds
DetectParamsNoFinally(file) ==
    LET current_pos == Tell(file)
        copied == Read(Seek(file, 0))
        info == MediaInfo(file.name)
        codec_raw == info.codec_name
        Fail(msg) == [ok |-> FALSE, err |-> ValidationError(msg), value |-> NoParams,
                      file |-> copied]
    IN  IF codec_raw = "" THEN Fail(<<"Unable to detect audio encoding">>)
        ELSE IF info.sample_rate = 0 \/ info.channels = 0
          THEN Fail(<<"Unable to detect audio parameters">>)
        ELSE [ok |-> TRUE, err |-> NoError,
              value |-> <<IF codec_raw \in DOMAIN FORMAT_MAP THEN FORMAT_MAP[codec_raw]
                                                             ELSE "PCM_S16LE",
                          info.sample_rate, info.channels>>,
              file |-> Seek(copied, current_pos)]

\* AudioValidator._detect_params: tell, seek(0), copy the stream to a temporary
\* file for mediainfo, and in the finally clause seek(current_pos); file is
\* the stream as the call leaves it
DetectParams(file) ==
    LET current_pos == Tell(file)
        copied == Read(Seek(file, 0))
        info == MediaInfo(file.name)
        codec_raw == info.codec_name
        restored == Seek(copied, current_pos)
        Fail(msg) == [ok |-> FALSE, err |-> ValidationError(msg), value |-> NoParams,
                      file |-> restored]
    IN  IF codec_raw = "" THEN Fail(<<"Unable to detect audio encoding">>)
        ELSE IF info.sample_rate = 0 \/ info.channels = 0
          THEN Fail(<<"Unable to detect audio parameters">>)
        ELSE [ok |-> TRUE, err |-> NoError,
              value |-> <<IF codec_raw \in DOMAIN FORMAT_MAP THEN FORMAT_MAP[codec_raw]
                                                             ELSE "PCM_S16LE",
                          info.sample_rate, info.channels>>,
              file |-> restored]

\* variant: the detected parameters are returned without validation
DetectAndValidateUnchecked(file) == DetectParams(file)

\* AudioValidator.detect_and_validate
DetectAndValidate(file) ==
    LET params == DetectParams(file)
        valid == ValidateParams(params.value[1], params.value[2], params.value[3])
    IN  IF ~params.ok THEN params
        ELSE [ok |-> valid.ok, err |-> valid.err, value |-> valid.value,
              file |-> params.file]

(* --------------------------- ResponseParser ---------------------------- *)
\* dict.get(key, default)
Get(d, k, default) == IF k \in DOMAIN d THEN d[k] ELSE default

\* an HTTP response of the recognition service carrying the JSON envelope
Envelope(code, valid, st, has, res) ==
    [status_code |-> code, valid_json |-> valid, status |-> st, has_result |-> has,
     result |-> res]

\* envelopes that make parse_response or extract_result fail whatever the endpoint
BadEnvelopes ==
    {Envelope(500, TRUE, 500, FALSE, [error |-> "x"]),
     Envelope(200, FALSE, NoStatus, FALSE, [error |-> "x"]),
     Envelope(200, TRUE, 400, FALSE, [error |-> "x"]),
     Envelope(200, TRUE, 200, FALSE, [error |-> "x"]),
     Envelope(200, TRUE, 200, TRUE, [error |-> "x"])}

\* a response whose body is valid JSON but a JSON array, not an envelope object
ArrayBody(code) ==
    [status_code |-> code, valid_json |-> TRUE, body_kind |-> "array", status |-> NoStatus,
     has_result |-> FALSE, result |-> [error |-> "x"]]

\* an envelope whose "result" is not a JSON object: null, a number, an array of strings
OddResult(kind, items) ==
    [status_code |-> 200, valid_json |-> TRUE, status |-> 200, has_result |-> TRUE,
     result_kind |-> kind, result |-> [json |-> kind, items |-> items]]

\* response.json(), the parsed body
ResponseJson(resp) ==
    [body_kind |-> Get(resp, "body_kind", "object"), status |-> resp.status,
     has_result |-> resp.has_result, result_kind |-> Get(resp, "result_kind", "object"),
     result |-> resp.result]

\* variant: the status embedded in the envelope is not looked at
ParseResponseHttpOnly(resp, expected_status) ==
    IF resp.status_code # expected_status
      THEN [ok |-> FALSE,
            err |-> Error("APIError", resp.status_code, <<"API request failed">>)]
    ELSE IF ~resp.valid_json
      THEN [ok |-> FALSE,
            err |-> Error("InvalidResponseError", NoStatus, <<"Failed to parse response as JSON">>)]
    ELSE [ok |-> TRUE, err |-> NoError, value |-> ResponseJson(resp)]

\* ResponseParser.parse_response
ParseResponse(resp, expected_status) ==
    IF resp.status_code # expected_status
      THEN [ok |-> FALSE,
            err |-> Error("APIError", resp.status_code, <<"API request failed">>)]
    ELSE IF ~resp.valid_json
      THEN [ok |-> FALSE,
            err |-> Error("InvalidResponseError", NoStatus, <<"Failed to parse response as JSON">>)]
    ELSE IF Get(resp, "body_kind", "object") # "object"
      THEN [ok |-> FALSE, err |-> Error("AttributeError", NoStatus, <<>>)]
    ELSE IF resp.status # expected_status
      THEN [ok |-> FALSE,
            err |-> Error("APIError", resp.status, <<"API returned error status">>)]
    ELSE [ok |-> TRUE, err |-> NoError, value |-> ResponseJson(resp)]

\* ResponseParser.extract_result; `field not in result` raises TypeError when
\* result is null or a number and tests membership when it is an array
ExtractResult(resp, required_fields) ==
    LET kind == Get(resp, "result_kind", "object")
        names == IF kind = "array" THEN resp.result.items ELSE DOMAIN resp.result
    IN  IF ~resp.has_result
          THEN [ok |-> FALSE,
                err |-> Error("InvalidResponseError", NoStatus, <<"Response missing 'result' field">>)]
        ELSE IF required_fields # {} /\ kind \in {"null", "number"}
          THEN [ok |-> FALSE, err |-> Error("TypeError", NoStatus, <<>>)]
        ELSE IF \E f \in required_fields : f \notin names
          THEN [ok |-> FALSE,
                err |-> Error("InvalidResponseError", NoStatus, <<"Result missing required fields">>)]
        ELSE [ok |-> TRUE, err |-> NoError, value |-> resp.result]

\* parse_response followed by extract_result, as every enveloped operation does
ParseAndExtract(resp, required_fields) ==
    IF ~ParseResponse(resp, 200).ok THEN ParseResponse(resp, 200)
    ELSE ExtractResult(resp, required_fields)

(* ----------------------- SpeechRecognitionConfig ----------------------- *)
\* strings are held as sequences of characters
DigitChars == <<"0", "1", "2", "3", "4", "5", "6", "7", "8", "9">>
IsDigit(ch) == \E i \in 1..Len(DigitChars) : DigitChars[i] = ch
DigitVal(ch) == (CHOOSE i \in 1..Len(DigitChars) : DigitChars[i] = ch) - 1

RECURSIVE LStrip(_)
\* str.lstrip() / str.rstrip() as int() applies them
LStrip(q) == IF q # <<>> /\ q[1] = " " THEN LStrip(Tail(q)) ELSE q
RECURSIVE RStrip(_)
RStrip(q) == IF q # <<>> /\ q[Len(q)] = " " THEN RStrip(SubSeq(q, 1, Len(q) - 1)) ELSE q

RECURSIVE DigitsValue(_)
\* value of a sequence of digits and underscores
DigitsValue(q) ==
    IF q = <<>> THEN 0
    ELSE IF q[Len(q)] = "_" THEN DigitsValue(SubSeq(q, 1, Len(q) - 1))
    ELSE 10 * DigitsValue(SubSeq(q, 1, Len(q) - 1)) + DigitVal(q[Len(q)])

\* int(text) for a str: surrounding whitespace, an optional sign, then digits
\* that may be grouped by single underscores; anything else is a ValueError
PyInt(text) ==
    LET t == RStrip(LStrip(text))
        signed == t # <<>> /\ t[1] \in {"+", "-"}
        body == IF signed THEN Tail(t) ELSE t
        wellformed == /\ body # <<>>
                      /\ IsDigit(body[1]) /\ IsDigit(body[Len(body)])
                      /\ \A i \in 1..Len(body) : IsDigit(body[i]) \/ body[i] = "_"
                      /\ \A i \in 1..(Len(body) - 1) : ~(body[i] = "_" /\ body[i + 1] = "_")
    IN  IF ~wellformed THEN [ok |-> FALSE, val |-> 0]
        ELSE [ok |-> TRUE,
              val |-> IF signed /\ t[1] = "-" THEN 0 - DigitsValue(body) ELSE DigitsValue(body)]

\* timeout[:-1]
DropLast(q) == IF q = <<>> THEN <<>> ELSE SubSeq(q, 1, Len(q) - 1)

\* SpeechRecognitionConfig._validate_timeout
ValidateTimeout(timeout) ==
    LET seconds == PyInt(DropLast(timeout))
    IN  IF ~seconds.ok THEN FALSE
        ELSE timeout # <<>> /\ timeout[Len(timeout)] = "s" /\ seconds.val > 0

\* SpeechRecognitionConfig(...): the dataclass constructor with __post_init__
NewConfig(hypotheses_count, max_speech_timeout, no_speech_timeout) ==
    IF hypotheses_count < 1 \/ hypotheses_count > 10
      THEN [ok |-> FALSE, err |-> ValidationError(<<"hypotheses_count must be between 1 and 10">>)]
    ELSE IF ~ValidateTimeout(max_speech_timeout)
      THEN [ok |-> FALSE, err |-> ValidationError(<<"max_speech_timeout must be in format 'Xs'">>)]
    ELSE IF ~ValidateTimeout(no_speech_timeout)
      THEN [ok |-> FALSE, err |-> ValidationError(<<"no_speech_timeout must be in format 'Xs'">>)]
    ELSE [ok |-> TRUE, err |-> NoError,
          value |-> [hypotheses_count |-> hypotheses_count,
                     max_speech_timeout |-> max_speech_timeout,
                     no_speech_timeout |-> no_speech_timeout]]

(* --------------------------- result conversion ------------------------- *)
\* one element of the downloaded array; times are the "<seconds>s" strings, held as
\* the milliseconds float() yields (ok = FALSE: float() raises ValueError)
Seconds(ms) == [ok |-> TRUE, ms |-> ms]
BadSeconds == [ok |-> FALSE, ms |-> 0]
\* a normalized_text entry: absent, null, or a string held as a sequence whose
\* elements are a space or a word without white space
NoText == [kind |-> "missing", chars |-> <<>>]
NullText == [kind |-> "null", chars |-> <<>>]
Str(q) == [kind |-> "str", chars |-> q]
Item(kind, results, text, start, end) ==
    [kind |-> kind, results |-> results, normalized_text |-> text, start |-> start,
     end |-> end]

ItemHello == Item("object", "list", Str(<<"Hello">>), Seconds(0), Seconds(1200))
ItemWorld == Item("object", "list", Str(<<"world">>), Seconds(1200), Seconds(2500))
ItemNumber == Item("number", "missing", NoText, Seconds(0), Seconds(0))
\* bodies data:download can return
Bodies == {"not json", "{}", "[hello, world]", "[hello, 42]"}
\* bodies _convert_to_whisper is applied to directly
ConverterBodies ==
    Bodies \cup {"42", "[]", "[world, hello]", "[hello, blank, world]", "[blank, hello]",
                 "[hello, empty, world]", "[hello, padded]", "[null_text, hello]", "[{}]",
                 "[hello, no_results, world]", "[null_results, world]", "[42]"}
\* json.loads of these bodies
BodyJson(b) ==
    LET Array(items) == [json |-> "array", items |-> items]
        \* {"results": [{"normalized_text": " ", "start": "2.5s", "end": "3s"}]}
        ItemBlank == Item("object", "list", Str(<<" ">>), Seconds(2500), Seconds(3000))
        \* {"results": [{"normalized_text": "", "start": "2.5s", "end": "3s"}]}
        ItemEmpty == Item("object", "list", Str(<<>>), Seconds(2500), Seconds(3000))
        \* {"results": [{"normalized_text": " again ", "start": "3s", "end": "xs"}]}
        ItemPadded == Item("object", "list", Str(<<" ", "again", " ">>), Seconds(3000),
                           BadSeconds)
        \* {"results": [{"normalized_text": null, "start": "xs", "end": "0.5s"}]}
        ItemNullText == Item("object", "list", NullText, BadSeconds, Seconds(500))
        \* {}: item.get("results", [{}])[0] is the default {}
        ItemBare == Item("object", "missing", NoText, Seconds(0), Seconds(0))
        \* {"results": []}
        ItemNoResults == Item("object", "empty", NoText, Seconds(0), Seconds(0))
        \* {"results": null}
        ItemNullResults == Item("object", "null", NoText, Seconds(0), Seconds(0))
    IN
    CASE b = "[hello, world]" -> Array(<<ItemHello, ItemWorld>>)
      [] b = "[hello, 42]"    -> Array(<<ItemHello, ItemNumber>>)
      [] b = "[]"             -> Array(<<>>)
      [] b = "[world, hello]" -> Array(<<ItemWorld, ItemHello>>)
      [] b = "[hello, blank, world]" -> Array(<<ItemHello, ItemBlank, ItemWorld>>)
      [] b = "[blank, hello]" -> Array(<<ItemBlank, ItemHello>>)
      [] b = "[hello, empty, world]" -> Array(<<ItemHello, ItemEmpty, ItemWorld>>)
      [] b = "[hello, padded]" -> Array(<<ItemHello, ItemPadded>>)
      [] b = "[null_text, hello]" -> Array(<<ItemNullText, ItemHello>>)
      [] b = "[{}]"           -> Array(<<ItemBare>>)
      [] b = "[hello, no_results, world]" -> Array(<<ItemHello, ItemNoResults, ItemWorld>>)
      [] b = "[null_results, world]" -> Array(<<ItemNullResults, ItemWorld>>)
      [] b = "[42]"           -> Array(<<ItemNumber>>)
      [] b = "[hello, arrow]" ->
           \* {"results": [{"normalized_text": "a-->b\tc", "start": "3599.5s",
           \*               "end": "3600s"}]}
           Array(<<ItemHello, Item("object", "list", Str(<<"a", "-->", "b", "\t", "c">>),
                                   Seconds(3599500), Seconds(3600000))>>)
      [] b = "{}"             -> [json |-> "object", items |-> <<>>]
      [] b = "42"             -> [json |-> "number", items |-> <<>>]
      [] OTHER                -> [json |-> "invalid", items |-> <<>>]

\* str.strip()
Strip(t) == RStrip(LStrip(t))

RECURSIVE Join(_)
\* " ".join(parts)
Join(parts) ==
    IF parts = <<>> THEN <<>>
    ELSE IF Len(parts) = 1 THEN parts[1]
    ELSE parts[1] \o <<" ">> \o Join(Tail(parts))

\* language.split("-")[0].lower(), "ru" when no language is given
LangCode(language) ==
    CASE language = "en-US" -> "en"
      [] language = "ru-RU" -> "ru"
      [] OTHER -> "ru"

Max(x, y) == IF x >= y THEN x ELSE y

\* the exception the loop body of _convert_to_whisper raises on an element, or "none"
ItemException(item) ==
    IF item.kind # "object" THEN "AttributeError"
    ELSE IF item.results = "empty" THEN "IndexError"
    ELSE IF item.results = "null" THEN "TypeError"
    ELSE "none"

RECURSIVE ConvertItemsSkipEmpty(_, _)
\* variant: an element without text gets no segment
ConvertItemsSkipEmpty(data, idx) ==
    IF idx > Len(data)
      THEN [segments |-> <<>>, parts |-> <<>>, max_end |-> 0]
      ELSE LET item == data[idx]
               text == IF item.normalized_text.kind \in {"missing", "null"} THEN <<>>
                       ELSE item.normalized_text.chars
               start_f == IF item.start.ok THEN item.start.ms ELSE 0
               end_f == IF item.end.ok THEN item.end.ms ELSE start_f
               rest == ConvertItemsSkipEmpty(data, idx + 1)
           IN  IF Strip(text) = <<>>
                 THEN rest
                 ELSE [segments |-> <<[id |-> idx - 1, start |-> start_f, end |-> end_f,
                                       text |-> Strip(text)]>> \o rest.segments,
                       parts |-> <<Strip(text)>> \o rest.parts,
                       max_end |-> Max(end_f, rest.max_end)]

RECURSIVE ConvertItemsLastEnd(_, _)
\* variant: the end of the last element is taken for the maximum
ConvertItemsLastEnd(data, idx) ==
    IF idx > Len(data)
      THEN [segments |-> <<>>, parts |-> <<>>, max_end |-> 0]
      ELSE LET item == data[idx]
               text == IF item.normalized_text.kind \in {"missing", "null"} THEN <<>>
                       ELSE item.normalized_text.chars
               start_f == IF item.start.ok THEN item.start.ms ELSE 0
               end_f == IF item.end.ok THEN item.end.ms ELSE start_f
               rest == ConvertItemsLastEnd(data, idx + 1)
           IN  [segments |-> <<[id |-> idx - 1, start |-> start_f, end |-> end_f,
                                text |-> Strip(text)]>> \o rest.segments,
                parts |-> (IF text # <<>> THEN <<Strip(text)>> ELSE <<>>) \o rest.parts,
                max_end |-> IF idx = Len(data) THEN end_f ELSE rest.max_end]

RECURSIVE ConvertItems(_, _)
\* loop of _convert_to_whisper over data[idx..]: segments, text parts, max end
ConvertItems(data, idx) ==
    IF idx > Len(data)
      THEN [segments |-> <<>>, parts |-> <<>>, max_end |-> 0]
      ELSE LET item == data[idx]
               text == IF item.normalized_text.kind \in {"missing", "null"} THEN <<>>
                       ELSE item.normalized_text.chars
               start_f == IF item.start.ok THEN item.start.ms ELSE 0
               end_f == IF item.end.ok THEN item.end.ms ELSE start_f
               rest == ConvertItems(data, idx + 1)
           IN  [segments |-> <<[id |-> idx - 1, start |-> start_f, end |-> end_f,
                                text |-> Strip(text)]>> \o rest.segments,
                parts |-> (IF text # <<>> THEN <<Strip(text)>> ELSE <<>>) \o rest.parts,
                max_end |-> Max(end_f, rest.max_end)]

\* variant: an element that cannot be converted ends the loop and what was
\* converted so far is returned
ConvertToWhisperPartial(json_str, language) ==
    LET parsed == BodyJson(json_str)
        Fail(t, msg) == [ok |-> FALSE, err |-> Error(t, NoStatus, msg), text |-> <<>>,
                         segments |-> <<>>, language |-> "none", duration |-> 0]
        bad == {i \in 1..Len(parsed.items) : ItemException(parsed.items[i]) # "none"}
        upto == IF bad = {} THEN Len(parsed.items)
                ELSE (CHOOSE i \in bad : \A j \in bad : i <= j) - 1
        conv == ConvertItems(SubSeq(parsed.items, 1, upto), 1)
    IN  IF parsed.json = "invalid"
          THEN Fail("ValueError", <<"Failed to parse recognition result">>)
        ELSE IF parsed.json # "array"
          THEN Fail("ValueError", <<"Unexpected recognition result format">>)
        ELSE [ok |-> TRUE, err |-> NoError, text |-> Strip(Join(conv.parts)),
              segments |-> conv.segments, language |-> LangCode(language),
              duration |-> conv.max_end]

\* variant: a body that is JSON but not an array is taken for an empty array
ConvertToWhisperLenient(json_str, language) ==
    LET parsed == BodyJson(json_str)
        Fail(t, msg) == [ok |-> FALSE, err |-> Error(t, NoStatus, msg), text |-> <<>>,
                         segments |-> <<>>, language |-> "none", duration |-> 0]
        bad == {i \in 1..Len(parsed.items) : ItemException(parsed.items[i]) # "none"}
        first == ItemException(parsed.items[CHOOSE i \in bad : \A j \in bad : i <= j])
        conv == ConvertItems(parsed.items, 1)
    IN  IF parsed.json = "invalid"
          THEN Fail("ValueError", <<"Failed to parse recognition result">>)
        ELSE IF bad # {} /\ first = "TypeError"
          THEN Fail("ValueError", <<"Failed to convert result">>)
        ELSE IF bad # {}
          THEN Fail(first, <<>>)
        ELSE [ok |-> TRUE, err |-> NoError, text |-> Strip(Join(conv.parts)),
              segments |-> conv.segments, language |-> LangCode(language),
              duration |-> conv.max_end]

\* _convert_to_whisper
ConvertToWhisper(json_str, language) ==
    LET parsed == BodyJson(json_str)
        Fail(t, msg) == [ok |-> FALSE, err |-> Error(t, NoStatus, msg), text |-> <<>>,
                         segments |-> <<>>, language |-> "none", duration |-> 0]
        bad == {i \in 1..Len(parsed.items) : ItemException(parsed.items[i]) # "none"}
        first == ItemException(parsed.items[CHOOSE i \in bad : \A j \in bad : i <= j])
        conv == ConvertItems(parsed.items, 1)
    IN  IF parsed.json = "invalid"
          THEN Fail("ValueError", <<"Failed to parse recognition result">>)
        ELSE IF parsed.json # "array"
          THEN Fail("ValueError", <<"Unexpected recognition result format">>)
        ELSE IF bad # {} /\ first = "TypeError"
          THEN Fail("ValueError", <<"Failed to convert result">>)
        ELSE IF bad # {}
          THEN Fail(first, <<>>)
        ELSE [ok |-> TRUE, err |-> NoError, text |-> Strip(Join(conv.parts)),
              segments |-> conv.segments, language |-> LangCode(language),
              duration |-> conv.max_end]

(* ----------------------------- result writers --------------------------- *)
\* variant: the minutes are counted from the start, the hours not taken off
FormatTimestampNoCarry(ms, always_include_hours, decimal_marker) ==
    LET hours == ms \div 3600000
        minutes == ms \div 60000
        rest_m == ms - minutes * 60000
        seconds == rest_m \div 1000
    IN  [hours |-> IF always_include_hours \/ hours > 0 THEN <<hours>> ELSE <<>>,
         minutes |-> minutes, seconds |-> seconds, marker |-> decimal_marker,
         milliseconds |-> rest_m - seconds * 1000]

\* format_timestamp: seconds are held as milliseconds; hours is empty when
\* the hours marker is left out
FormatTimestamp(ms, always_include_hours, decimal_marker) ==
    LET hours == ms \div 3600000
        rest_h == ms - hours * 3600000
        minutes == rest_h \div 60000
        rest_m == rest_h - minutes * 60000
        seconds == rest_m \div 1000
    IN  [hours |-> IF always_include_hours \/ hours > 0 THEN <<hours>> ELSE <<>>,
         minutes |-> minutes, seconds |-> seconds, marker |-> decimal_marker,
         milliseconds |-> rest_m - seconds * 1000]

RECURSIVE Replace(_, _, _)
\* str.replace(old, new) for an old that is one element of the text
Replace(t, old, new) ==
    IF t = <<>> THEN <<>>
    ELSE <<IF Head(t) = old THEN new ELSE Head(t)>> \o Replace(Tail(t), old, new)

\* the writer classes get_writer chooses from
Writers == [txt |-> "WriteTXT", vtt |-> "WriteVTT", srt |-> "WriteSRT", tsv |-> "WriteTSV",
            json |-> "WriteJSON"]

\* get_writer: writers[output_format](output_file)
GetWriter(output_format) ==
    IF output_format \in DOMAIN Writers
      THEN [ok |-> TRUE, err |-> NoError, writer |-> Writers[output_format]]
      ELSE [ok |-> FALSE, err |-> Error("KeyError", NoStatus, <<output_format>>),
            writer |-> "none"]

\* what a writer is handed: the TranscriptionResponse create returns, or the
\* list of elements of the downloaded array
TranscriptionResponse(duration, language, text, segments, status, task_id) ==
    [kind |-> "TranscriptionResponse", duration |-> duration, language |-> language,
     text |-> text, segments |-> segments, status |-> status, task_id |-> task_id]
RawList(items) == [kind |-> "list", items |-> items]

\* segment['results'][0]: the exception it raises on an element, or "none"
FirstResultException(item) ==
    IF item.kind # "object" THEN "TypeError"
    ELSE IF item.results = "missing" THEN "KeyError"
    ELSE IF item.results = "empty" THEN "IndexError"
    ELSE IF item.results = "null" THEN "TypeError"
    ELSE "none"

\* segment['results'][0]['normalized_text'].strip()
TextException(item) ==
    IF FirstResultException(item) # "none" THEN FirstResultException(item)
    ELSE IF item.normalized_text.kind = "missing" THEN "KeyError"
    ELSE IF item.normalized_text.kind = "null" THEN "AttributeError"
    ELSE "none"

\* float(segment['results'][0][key].replace('s', ''))
TimeException(item, time) ==
    IF FirstResultException(item) # "none" THEN FirstResultException(item)
    ELSE IF ~time.ok THEN "ValueError"
    ELSE "none"

\* the first exception reading start, end and text of an element raises
CueException(item) ==
    IF TimeException(item, item.start) # "none" THEN TimeException(item, item.start)
    ELSE IF TimeException(item, item.end) # "none" THEN TimeException(item, item.end)
    ELSE TextException(item)

WriterFail(t, output) == [ok |-> FALSE, err |-> Error(t, NoStatus, <<>>), output |-> output]
WriterDone(output) == [ok |-> TRUE, err |-> NoError, output |-> output]

RECURSIVE WriteTXT(_, _)
\* WriteTXT.write_result on the elements from index i on
WriteTXT(items, i) ==
    IF i > Len(items) THEN WriterDone(<<>>)
    ELSE IF TextException(items[i]) # "none" THEN WriterFail(TextException(items[i]), <<>>)
    ELSE LET rest == WriteTXT(items, i + 1) IN
         [rest EXCEPT !.output = <<[line |-> "text",
                                    text |-> Strip(items[i].normalized_text.chars)]>> \o @]

RECURSIVE WriteCues(_, _, _, _, _)
\* the loop of WriteVTT / WriteSRT over SubtitlesWriter.iterate_result; numbered
\* cues carry their number
WriteCues(items, i, numbered, always_include_hours, decimal_marker) ==
    IF i > Len(items) THEN WriterDone(<<>>)
    ELSE IF CueException(items[i]) # "none" THEN WriterFail(CueException(items[i]), <<>>)
    ELSE LET rest == WriteCues(items, i + 1, numbered, always_include_hours, decimal_marker)
             cue == [line |-> "cue", number |-> IF numbered THEN <<i>> ELSE <<>>,
                     start |-> FormatTimestamp(items[i].start.ms, always_include_hours,
                                               decimal_marker),
                     end |-> FormatTimestamp(items[i].end.ms, always_include_hours,
                                             decimal_marker),
                     text |-> Replace(Strip(items[i].normalized_text.chars), "-->", "->")]
         IN  [rest EXCEPT !.output = <<cue>> \o @]

RECURSIVE WriteRows(_, _)
\* the loop of WriteTSV.write_result: a row is printed field by field, so a
\* row that cannot be completed is left with the fields printed before
WriteRows(items, i) ==
    IF i > Len(items) THEN WriterDone(<<>>)
    ELSE LET item == items[i]
             rest == WriteRows(items, i + 1)
         IN  IF TimeException(item, item.start) # "none"
               THEN WriterFail(TimeException(item, item.start), <<>>)
             ELSE IF TimeException(item, item.end) # "none"
               THEN WriterFail(TimeException(item, item.end),
                               <<[line |-> "row", start |-> item.start.ms]>>)
             ELSE IF TextException(item) # "none"
               THEN WriterFail(TextException(item),
                               <<[line |-> "row", start |-> item.start.ms,
                                  end |-> item.end.ms]>>)
             ELSE [rest EXCEPT !.output =
                     <<[line |-> "row", start |-> item.start.ms, end |-> item.end.ms,
                        text |-> Replace(Strip(item.normalized_text.chars), "\t", " ")]>>
                     \o @]

TsvHeader == [line |-> "header", fields |-> <<"start", "end", "text">>]
VttHeader == [line |-> "WEBVTT"]

\* ResultWriter.__call__ -> write_result(result, file): what is written to the
\* file and how the call ends; iterating a TranscriptionResponse, or dumping it
\* as JSON, raises TypeError
WriteResult(writer, data) ==
    LET Prefixed(head, res) == [res EXCEPT !.output = head \o @]
        iterable == data.kind = "list"
    IN  CASE writer = "WriteTXT" ->
               IF iterable THEN WriteTXT(data.items, 1) ELSE WriterFail("TypeError", <<>>)
          [] writer = "WriteVTT" ->
               Prefixed(<<VttHeader>>,
                        IF iterable THEN WriteCues(data.items, 1, FALSE, FALSE, ".")
                        ELSE WriterFail("TypeError", <<>>))
          [] writer = "WriteSRT" ->
               IF iterable THEN WriteCues(data.items, 1, TRUE, TRUE, ",")
               ELSE WriterFail("TypeError", <<>>)
          [] writer = "WriteTSV" ->
               Prefixed(<<TsvHeader>>,
                        IF iterable THEN WriteRows(data.items, 1)
                        ELSE WriterFail("TypeError", <<>>))
          [] OTHER ->
               IF iterable
                 THEN WriterDone(<<[line |-> "json", json |-> "array",
                                    items |-> data.items]>>)
                 ELSE WriterFail("TypeError", <<>>)

(* ------------------------- recognition service ------------------------- *)
RequestFileIds == <<"req_1", "req_2", "req_3">>
TaskIds == <<"task_1", "task_2", "task_3">>
ResponseFileIds == <<"res_1", "res_2", "res_3">>

TerminalStatuses == {"DONE", "ERROR"}
\* CANCELED is a status of the service that poll_for_result does not know
StatusValues == {"NEW", "RUNNING", "DONE", "ERROR", "CANCELED"}
FinalStatuses == {"DONE", "ERROR", "CANCELED"}

TaskNo(task_id) == CHOOSE k \in 1..Len(TaskIds) : TaskIds[k] = task_id

\* the service works on a task: its status changes until it is terminal
ServiceAdvance(k) ==
    /\ k \in 1..Len(tasks)
    /\ tasks[k] \notin FinalStatuses
    /\ \E st \in (IF tasks[k] = "NEW" THEN {"RUNNING"} ELSE FinalStatuses) :
         tasks' = [tasks EXCEPT ![k] = st]
    /\ UNCHANGED <<now, pc, err, ncalls, tokvars, uploads, args, response, log, locals>>
    /\ UNCHANGED apivars

\* answers of task:get for task k: the current status with its payload, or a failure
StatusResponses(k) ==
    (CASE tasks[k] = "DONE" ->
            {Envelope(200, TRUE, 200, TRUE, [status |-> "DONE", response_file_id |-> ResponseFileIds[k]]),
             Envelope(200, TRUE, 200, TRUE, [status |-> "DONE", response_file_id |-> ""]),
             Envelope(200, TRUE, 200, TRUE, [status |-> "DONE", response_file_id |-> Null]),
             Envelope(200, TRUE, 200, TRUE, [status |-> "DONE"])}
       [] tasks[k] = "ERROR" ->
            {Envelope(200, TRUE, 200, TRUE, [status |-> "ERROR", error_message |-> "bad audio"]),
             Envelope(200, TRUE, 200, TRUE, [status |-> "ERROR"])}
       [] OTHER ->
            {Envelope(200, TRUE, 200, TRUE, [status |-> tasks[k]]),
             Envelope(200, TRUE, 200, TRUE, [status |-> Null])})
    \cup BadEnvelopes

(* ------------------------------ TaskPoller ----------------------------- *)
TaskStatusResponseError(msg) == Error("TaskStatusResponseError", NoStatus, msg)

\* variant: an ERROR status is treated as transient and polled again
PollDecisionRetryOnError(task_status) ==
    LET status == Get(task_status, "status", Null)
        response_file_id == Get(task_status, "response_file_id", Null)
    IN  IF status = "DONE"
          THEN IF response_file_id \in {Null, ""}
                 THEN [kind |-> "raise", value |-> "none",
                       err |-> TaskStatusResponseError(
                                 <<"Task completed but no response file ID found">>)]
                 ELSE [kind |-> "return", value |-> response_file_id, err |-> NoError]
        ELSE [kind |-> "sleep", value |-> "none", err |-> NoError]

\* variant: DONE returns whatever response_file_id holds
PollDecisionNoFileIdCheck(task_status) ==
    LET status == Get(task_status, "status", Null)
    IN  IF status = "ERROR"
          THEN [kind |-> "raise", value |-> "none",
                err |-> TaskStatusResponseError(
                          <<"Task failed", Get(task_status, "error_message", "Unknown error")>>)]
        ELSE IF status = "DONE"
          THEN [kind |-> "return", value |-> Get(task_status, "response_file_id", Null),
                err |-> NoError]
        ELSE [kind |-> "sleep", value |-> "none", err |-> NoError]

\* variant: only NEW and RUNNING are waited for, any other status is an error
PollDecisionStrict(task_status) ==
    LET status == Get(task_status, "status", Null)
        response_file_id == Get(task_status, "response_file_id", Null)
    IN  IF status = "DONE" /\ response_file_id \notin {Null, ""}
          THEN [kind |-> "return", value |-> response_file_id, err |-> NoError]
        ELSE IF status \in {"NEW", "RUNNING"}
          THEN [kind |-> "sleep", value |-> "none", err |-> NoError]
        ELSE [kind |-> "raise", value |-> "none",
              err |-> TaskStatusResponseError(<<"Task failed", "unexpected status">>)]

\* variant: DONE without a response file id is polled again
PollDecisionRetryOnMissingFile(task_status) ==
    LET status == Get(task_status, "status", Null)
        response_file_id == Get(task_status, "response_file_id", Null)
    IN  IF status = "ERROR"
          THEN [kind |-> "raise", value |-> "none",
                err |-> TaskStatusResponseError(
                          <<"Task failed", Get(task_status, "error_message", "Unknown error")>>)]
        ELSE IF status = "DONE" /\ response_file_id \notin {Null, ""}
          THEN [kind |-> "return", value |-> response_file_id, err |-> NoError]
        ELSE [kind |-> "sleep", value |-> "none", err |-> NoError]

\* variant: whatever the status, the loop sleeps and queries again
PollDecisionNeverEnds(task_status) == [kind |-> "sleep", value |-> "none", err |-> NoError]

\* body of the loop of TaskPoller.poll_for_result after the status query
PollDecision(task_status) ==
    LET status == Get(task_status, "status", Null)
        response_file_id == Get(task_status, "response_file_id", Null)
    IN  IF status = "ERROR"
          THEN [kind |-> "raise", value |-> "none",
                err |-> TaskStatusResponseError(
                          <<"Task failed", Get(task_status, "error_message", "Unknown error")>>)]
        ELSE IF status = "DONE"
          THEN IF response_file_id \in {Null, ""}
                 THEN [kind |-> "raise", value |-> "none",
                       err |-> TaskStatusResponseError(
                                 <<"Task completed but no response file ID found">>)]
                 ELSE [kind |-> "return", value |-> response_file_id, err |-> NoError]
        ELSE [kind |-> "sleep", value |-> "none", err |-> NoError]

(* ---------------- SberSpeechRecognition and create ---------------------- *)
\* debug_dump is "none" (no dump asked for) or the path to dump the raw result to
CreateArgs ==
    {[file |-> "speech.wav", language |-> "en-US", debug_dump |-> "none"],
     [file |-> "music.mp3", language |-> "ru-RU", debug_dump |-> "dump.json"],
     [file |-> "empty.bin", language |-> "ru-RU", debug_dump |-> "none"],
     [file |-> "stereo.opus", language |-> "ru-RU", debug_dump |-> "none"]}

\* a step of create: what was sent, what came back
Event(op, arg, res, extra) == [op |-> op, arg |-> arg, res |-> res, extra |-> extra]
Logged(c, e) == log' = [log EXCEPT ![c] = Append(@, e)]

\* non-terminal answers the poll loop of c has received
Sleeps(c) == Cardinality({i \in 1..Len(log[c]) : log[c][i].op = "sleep"})

\* arguments create passes on: async_recognize(request_file_id=file_id),
\* poll_for_result(task.id), download_result(response_file_id)
SubmitArg(c) == locals[c].file_id
\* variant: the poller asks for the task submitted last on the client
PollArgLastSubmitted(c) == TaskIds[Len(tasks)]
PollArg(c) == locals[c].task_id
\* variant: the task id is passed to download_result
DownloadArgTaskId(c) == locals[c].task_id
DownloadArg(c) == locals[c].response_file_id

\* variant: a terminal status in the submission response is taken for the task's status
FetchedStatusOrSubmitted(c, resp) ==
    IF log[c][3].extra \in TerminalStatuses THEN [status |-> log[c][3].extra]
    ELSE resp.result

\* task_status = self.client.get_task_status(task_id): the payload of this
\* iteration's answer
FetchedStatus(c, resp) == resp.result

\* variant: the error is noted and the failed operation is attempted again
RaiseAndRetry(c, e) ==
    /\ err' = [err EXCEPT ![c] = e]
    /\ UNCHANGED <<pc, tpc, locals, scope, retval, token_value, expiry_value, seen, nreq,
                   raced>>

\* an exception leaves create
Raise(c, e) ==
    /\ pc' = [pc EXCEPT ![c] = "raised"]
    /\ err' = [err EXCEPT ![c] = e]
    /\ locals' = [locals EXCEPT ![c] = NoLocals]
    /\ tpc' = [tpc EXCEPT ![c] = "none"]
    /\ UNCHANGED <<scope, retval, token_value, expiry_value, seen, nreq, raced>>

\* variant: the next operation builds its headers without asking the manager
NextOpNoToken(c, op) ==
    /\ pc' = [pc EXCEPT ![c] = op]
    /\ tpc' = [tpc EXCEPT ![c] = "done"]
    /\ retval' = [retval EXCEPT ![c] = NoToken]
    /\ UNCHANGED <<err, scope, token_value, expiry_value, seen, nreq, raced>>

\* the next operation starts with _get_headers, i.e. with get_valid_token()
NextOp(c, op) ==
    /\ pc' = [pc EXCEPT ![c] = op]
    /\ EnterGetValidToken(c, DefaultScope)
    /\ UNCHANGED err

\* variant: the poll loop and its sleeps run in the coroutine, on the event loop
OnLoopWhilePolling(c) == args[c] # NoArgs /\ pc[c] \in {"validate", "poll", "sleep"}

\* create is a coroutine: what it does itself runs on the event loop, which
\* runs one coroutine at a time; the calls it hands to asyncio.to_thread
\* (upload, submit, the poll loop, download) run on worker threads and leave
\* the event loop to the other coroutines. c holds the event loop while
\* detect_and_validate runs; the conversion is one step of the event loop
OnLoop(c) == args[c] # NoArgs /\ pc[c] = "validate"
LoopFree(c) == \A d \in Calls \ {c} : ~OnLoop(d)

\* caller c is inside transcriptions.create (and not in a direct low-level call)
InCreate(c) == args[c] # NoArgs

\* a low-level call made directly returns to its caller
ReturnToCaller(c) ==
    /\ pc' = [pc EXCEPT ![c] = "returned"]
    /\ tpc' = [tpc EXCEPT ![c] = "none"]
    /\ UNCHANGED <<err, scope, retval, token_value, expiry_value, seen, nreq, raced>>

\* SpeechRecognitionTask(result_data)
SpeechRecognitionTask(result_data) ==
    [id |-> Get(result_data, "id", Null), created_at |-> Get(result_data, "created_at", Null),
     updated_at |-> Get(result_data, "updated_at", Null),
     status |-> Get(result_data, "status", Null)]

\* callers that use the low-level API (sr.async_recognize, ResponseParser,
\* SpeechRecognitionConfig) directly
ApiCallers == {2}

\* arguments direct callers pass to async_recognize
Encodings == {"PCM_S16LE", "OPUS", "MP3", "FLAC", "ALAW", "MULAW", "AAC"}
SampleRates == {7999, 8000, 16000, 96000, 96001}
ChannelCounts == {1, 2, 3, 8, 9}
AudioParams == {<<e, r, n>> : e \in Encodings, r \in SampleRates, n \in ChannelCounts}

\* sr.async_recognize(request_file_id, audio_encoding, sample_rate, channels_count)
\* is called directly
AsyncRecognizeCall(c, p) ==
    /\ pc[c] = "idle"
    /\ call' = [call EXCEPT ![c] = [fn |-> "async_recognize",
                                    request_file_id |-> RequestFileIds[1], params |-> p]]
    /\ locals' = [locals EXCEPT ![c] = [NoLocals EXCEPT !.params = p,
                                                        !.file_id = RequestFileIds[1]]]
    /\ pc' = [pc EXCEPT ![c] = "submit"]
    /\ UNCHANGED <<now, err, ncalls, tokvars, pipevars, result>>

\* a direct call of a function that touches neither the cache nor the service
\* returns value or raises e
Finish(c, res) ==
    /\ pc' = [pc EXCEPT ![c] = IF res.ok THEN "returned" ELSE "raised"]
    /\ err' = [err EXCEPT ![c] = res.err]
    /\ UNCHANGED <<now, ncalls, tokvars, pipevars, locals>>

\* responses and expected statuses direct callers hand to parse_response
ParserResponses ==
    {Envelope(code, valid, IF valid THEN st ELSE NoStatus, valid,
              [request_file_id |-> RequestFileIds[1]]) :
        code \in {200, 201, 500}, valid \in BOOLEAN, st \in {200, 201, 400, NoStatus}}
      \cup {ArrayBody(code) : code \in {200, 201}}
ExpectedStatuses == {200, 201}

\* ResponseParser.parse_response(response, expected_status) is called directly
ParseResponseCall(c, resp, expected_status) ==
    /\ pc[c] = "idle"
    /\ call' = [call EXCEPT ![c] = [fn |-> "parse_response", response |-> resp,
                                    expected_status |-> expected_status]]
    /\ LET res == ParseResponse(resp, expected_status) IN
         /\ Finish(c, res)
         /\ result' = [result EXCEPT ![c] = IF res.ok
                                              THEN [fn |-> "parse_response", value |-> res.value]
                                              ELSE NoResult]

\* envelopes and required field lists direct callers hand to extract_result
ParserEnvelopes ==
    {Envelope(200, TRUE, 200, has, res) :
        has \in BOOLEAN,
        res \in {[request_file_id |-> RequestFileIds[1]],
                 [id |-> TaskIds[1], status |-> "NEW", created_at |-> "t", updated_at |-> "t"],
                 [id |-> TaskIds[1], status |-> "NEW"],
                 [error |-> "x"]}}
      \cup {OddResult("null", {}), OddResult("number", {}),
            OddResult("array", {"request_file_id"})}
RequiredFieldLists ==
    {{}, {"request_file_id"}, {"status"}, {"id", "status", "created_at", "updated_at"}}

\* ResponseParser.extract_result(response_json, required_fields) is called directly
ExtractResultCall(c, envelope, required_fields) ==
    /\ pc[c] = "idle"
    /\ call' = [call EXCEPT ![c] = [fn |-> "extract_result", envelope |-> envelope,
                                    required_fields |-> required_fields]]
    /\ LET res == ExtractResult(envelope, required_fields) IN
         /\ Finish(c, res)
         /\ result' = [result EXCEPT ![c] = IF res.ok
                                              THEN [fn |-> "extract_result", value |-> res.value]
                                              ELSE NoResult]

\* arguments direct callers construct a SpeechRecognitionConfig with
HypothesesCounts == {0, 1, 10, 11}
Timeouts ==
    {<<"2", "0", "s">>, <<"7", "s">>, <<"0", "s">>, <<"-", "5", "s">>, <<"s">>, <<>>,
     <<"2", "0">>, <<"5", "m">>, <<"a", "b", "c">>, <<"5", ".", "0", "s">>,
     <<"+", "5", "s">>, <<" ", "5", "s">>, <<"5", " ", "s">>, <<"1", "_", "0", "s">>}

\* SpeechRecognitionConfig(hypotheses_count, max_speech_timeout, no_speech_timeout)
\* is constructed
ConfigCall(c, hypotheses_count, max_speech_timeout, no_speech_timeout) ==
    /\ pc[c] = "idle"
    /\ call' = [call EXCEPT ![c] = [fn |-> "SpeechRecognitionConfig",
                                    hypotheses_count |-> hypotheses_count,
                                    max_speech_timeout |-> max_speech_timeout,
                                    no_speech_timeout |-> no_speech_timeout]]
    /\ LET res == NewConfig(hypotheses_count, max_speech_timeout, no_speech_timeout) IN
         /\ Finish(c, res)
         /\ result' = [result EXCEPT ![c] = IF res.ok
                                              THEN [fn |-> "SpeechRecognitionConfig",
                                                    value |-> res.value]
                                              ELSE NoResult]

\* languages direct callers hand to _convert_to_whisper ("none": no language)
Languages == {"en-US", "ru-RU", "none"}

\* _convert_to_whisper(json_str, language) is called directly
ConvertCall(c, json_str, language) ==
    /\ pc[c] = "idle"
    /\ call' = [call EXCEPT ![c] = [fn |-> "_convert_to_whisper", json_str |-> json_str,
                                    language |-> language]]
    /\ LET res == ConvertToWhisper(json_str, language) IN
         /\ Finish(c, res)
         /\ result' = [result EXCEPT ![c] = IF res.ok
                                              THEN [fn |-> "_convert_to_whisper",
                                                    text |-> res.text,
                                                    segments |-> res.segments,
                                                    language |-> res.language,
                                                    duration |-> res.duration]
                                              ELSE NoResult]

\* positions a caller's stream is at when it is handed to detect_and_validate
StreamPositions == 0..3

\* AudioValidator.detect_and_validate(file) is called directly; the result
\* keeps the stream as the call left it, also when the call raises
DetectAndValidateCall(c, f, pos) ==
    /\ pc[c] = "idle"
    /\ call' = [call EXCEPT ![c] = [fn |-> "detect_and_validate", file |-> Stream(f, pos)]]
    /\ LET res == DetectAndValidate(Stream(f, pos)) IN
         /\ Finish(c, res)
         /\ result' = [result EXCEPT ![c] = [fn |-> "detect_and_validate",
                                             value |-> res.value, file |-> res.file]]

\* format names callers hand to get_writer
OutputFormats == DOMAIN Writers \cup {"xml", "TXT", ""}

\* get_writer(output_format, output_file) is called directly
GetWriterCall(c, output_format) ==
    /\ pc[c] = "idle"
    /\ call' = [call EXCEPT ![c] = [fn |-> "get_writer", output_format |-> output_format]]
    /\ LET res == GetWriter(output_format) IN
         /\ Finish(c, res)
         /\ result' = [result EXCEPT ![c] = IF res.ok
                                              THEN [fn |-> "get_writer", writer |-> res.writer]
                                              ELSE NoResult]

\* the TranscriptionResponse create builds from a downloaded body
ResponseOf(body, language, task_id) ==
    LET res == ConvertToWhisper(body, language) IN
    TranscriptionResponse(res.duration, res.language, res.text, res.segments, "DONE", task_id)

\* what callers hand to a writer
WriterInputs ==
    {ResponseOf(b, "en-US", "task_1") : b \in {"[hello, world]", "[]"}}
    \cup {RawList(BodyJson(b).items) :
            b \in {"[hello, world]", "[]", "[hello, padded]", "[hello, 42]", "[{}]",
                   "[null_text, hello]", "[hello, arrow]"}}

\* writer = get_writer(output_format, file); writer(data)
WriteCall(c, output_format, data) ==
    /\ pc[c] = "idle"
    /\ call' = [call EXCEPT ![c] = [fn |-> "write_result", output_format |-> output_format,
                                    data |-> data]]
    /\ LET res == WriteResult(Writers[output_format], data) IN
         /\ Finish(c, res)
         /\ result' = [result EXCEPT ![c] = [fn |-> "write_result", output |-> res.output]]

\* AudioValidator._validate_params(*p) is called directly, and called again
\* with the same arguments; the result keeps the outcome of every call so far
ValidateParamsCall(c, p) ==
    /\ \/ pc[c] = "idle"
       \/ /\ pc[c] \in {"returned", "raised"}
          /\ call[c].fn = "_validate_params"
          /\ call[c].params = p
          /\ Len(result[c].outcomes) < MaxCalls
    /\ call' = [call EXCEPT ![c] = [fn |-> "_validate_params", params |-> p]]
    /\ LET res == ValidateParams(p[1], p[2], p[3])
           before == IF pc[c] = "idle" THEN <<>> ELSE result[c].outcomes
       IN /\ Finish(c, res)
          /\ result' = [result EXCEPT ![c] = [fn |-> "_validate_params",
                                              outcomes |-> Append(before, res)]]

\* token_manager._refresh_token(scope) is called directly and answered by r
RefreshTokenCall(c, r) ==
    /\ pc[c] = "idle"
    /\ call' = [call EXCEPT ![c] = [fn |-> "_refresh_token", response |-> r]]
    /\ LET res == RefreshResult(r) IN
         /\ Finish(c, res)
         /\ result' = [result EXCEPT ![c] = IF res.ok
                                              THEN [fn |-> "_refresh_token",
                                                    token_value |-> res.token_value,
                                                    expiry_value |-> res.expiry_value]
                                              ELSE NoResult]

\* times, in milliseconds, that callers hand to format_timestamp
Timestamps ==
    {0, 1, 999, 1000, 59999, 60000, 61001, 3599999, 3600000, 3600001, 3661001, 7325250,
     359999999, 360000000}

\* format_timestamp(seconds, always_include_hours, decimal_marker) is called
\* the way WriteVTT (False, ".") and WriteSRT (True, ",") call it
FormatTimestampCall(c, ms, always_include_hours, decimal_marker) ==
    /\ pc[c] = "idle"
    /\ call' = [call EXCEPT ![c] = [fn |-> "format_timestamp", ms |-> ms,
                                    always_include_hours |-> always_include_hours,
                                    decimal_marker |-> decimal_marker]]
    /\ Finish(c, [ok |-> TRUE, err |-> NoError])
    /\ result' = [result EXCEPT ![c] =
                    [fn |-> "format_timestamp",
                     value |-> FormatTimestamp(ms, always_include_hours, decimal_marker)]]

\* client.audio.transcriptions.create(file, language) is called
Create(c, a) ==
    /\ pc[c] = "idle"
    /\ LoopFree(c)
    /\ args' = [args EXCEPT ![c] = a]
    /\ pc' = [pc EXCEPT ![c] = "validate"]
    /\ UNCHANGED <<now, err, ncalls, tokvars, uploads, tasks, response, log, locals>>
    /\ UNCHANGED apivars

\* AudioValidator.detect_and_validate(file)
Validate(c) ==
    /\ pc[c] = "validate"
    /\ LET res == DetectAndValidate(Stream(args[c].file, 0)) IN
         /\ Logged(c, Event("validate", args[c].file, IF res.ok THEN "ok" ELSE "error", ""))
         /\ IF res.ok
              THEN /\ locals' = [locals EXCEPT ![c].params = res.value]
                   /\ NextOp(c, "upload")
              ELSE Raise(c, res.err)
    /\ UNCHANGED <<now, ncalls, token, token_expiry, uploads, tasks, args, response>>
    /\ UNCHANGED apivars

\* upload_file: POST data:upload, parse the envelope
UploadFile(c) ==
    /\ pc[c] = "upload"
    /\ tpc[c] = "done"
    /\ \E resp \in {Envelope(200, TRUE, 200, TRUE,
                             [request_file_id |-> RequestFileIds[uploads + 1]])}
                     \cup BadEnvelopes :
         LET res == ParseAndExtract(resp, {"request_file_id"}) IN
         IF res.ok
           THEN /\ uploads' = uploads + 1
                /\ Logged(c, Event("upload", args[c].file, resp.result.request_file_id, ""))
                /\ locals' = [locals EXCEPT ![c].file_id = resp.result.request_file_id]
                /\ pc' = [pc EXCEPT ![c] = "submit"]
                /\ tpc' = [tpc EXCEPT ![c] = "none"]
                /\ UNCHANGED <<err, scope, retval, token_value, expiry_value, seen, nreq,
                               raced>>
           ELSE /\ Logged(c, Event("upload", args[c].file, "error", ""))
                /\ Raise(c, res.err)
                /\ UNCHANGED uploads
    /\ UNCHANGED <<now, ncalls, token, token_expiry, tasks, args, response>>
    /\ UNCHANGED apivars

\* async_recognize, first statement: AudioValidator._validate_params
AsyncRecognizeValidate(c) ==
    /\ pc[c] = "submit"
    /\ tpc[c] = "none"
    /\ LET p == locals[c].params
           res == ValidateParams(p[1], p[2], p[3]) IN
         IF res.ok
           THEN /\ NextOp(c, "submit")
                /\ UNCHANGED <<log, locals>>
           ELSE /\ Logged(c, Event("submit", SubmitArg(c), "invalid", ""))
                /\ Raise(c, res.err)
    /\ UNCHANGED <<now, ncalls, token, token_expiry, uploads, tasks, args, response>>
    /\ UNCHANGED apivars

\* async_recognize: POST speech:async_recognize, parse the envelope
AsyncRecognize(c) ==
    /\ pc[c] = "submit"
    /\ tpc[c] = "done"
    /\ \E st \in StatusValues :
       \E resp \in {Envelope(200, TRUE, 200, TRUE,
                             [id |-> TaskIds[Len(tasks) + 1], status |-> st,
                              created_at |-> "t", updated_at |-> "t"])}
                     \cup BadEnvelopes :
         LET res == ParseAndExtract(resp, {"id", "status", "created_at", "updated_at"}) IN
         IF res.ok
           THEN /\ tasks' = Append(tasks, st)
                /\ Logged(c, Event("submit", SubmitArg(c), resp.result.id, resp.result.status))
                /\ locals' = [locals EXCEPT ![c].task_id = resp.result.id]
                /\ IF InCreate(c)
                     THEN /\ NextOp(c, "poll")
                          /\ UNCHANGED result
                     ELSE /\ ReturnToCaller(c)
                          /\ result' = [result EXCEPT ![c] =
                                          [fn |-> "async_recognize",
                                           value |-> SpeechRecognitionTask(resp.result)]]
           ELSE /\ Logged(c, Event("submit", SubmitArg(c), "error", ""))
                /\ Raise(c, res.err)
                /\ UNCHANGED <<tasks, result>>
    /\ UNCHANGED <<now, ncalls, token, token_expiry, uploads, args, response>>
    /\ UNCHANGED call

\* one iteration of poll_for_result: get_task_status, then the decision
PollForResult(c) ==
    /\ pc[c] = "poll"
    /\ tpc[c] = "done"
    /\ LET k == TaskNo(PollArg(c)) IN
       /\ Sleeps(c) < MaxPolls + (IF tasks[k] \in TerminalStatuses THEN 1 ELSE 0)
       /\ \E resp \in StatusResponses(k) :
            LET res == ParseAndExtract(resp, {"status"})
                d == PollDecision(FetchedStatus(c, resp))
                ev == Event("status", PollArg(c),
                            IF res.ok THEN resp.result.status ELSE "error",
                            IF ~res.ok THEN ""
                            ELSE IF resp.result.status = "ERROR"
                              THEN Get(resp.result, "error_message", Missing)
                              ELSE Get(resp.result, "response_file_id", Missing))
            IN
            /\ Logged(c, ev)
            /\ IF ~res.ok THEN Raise(c, res.err)
               ELSE IF d.kind = "raise" THEN Raise(c, d.err)
               ELSE IF d.kind = "return"
                 THEN /\ locals' = [locals EXCEPT ![c].response_file_id = d.value]
                      /\ NextOp(c, "download")
               ELSE /\ pc' = [pc EXCEPT ![c] = "sleep"]
                    /\ tpc' = [tpc EXCEPT ![c] = "none"]
                    /\ UNCHANGED <<err, locals, scope, retval, token_value, expiry_value,
                                   seen, nreq, raced>>
    /\ UNCHANGED <<now, ncalls, token, token_expiry, uploads, tasks, args, response>>
    /\ UNCHANGED apivars

\* variant: the loop sleeps twice before it queries again
SleepTwice(c) ==
    /\ pc[c] = "sleep"
    /\ log' = [log EXCEPT ![c] = @ \o <<Event("sleep", "", "", ""), Event("sleep", "", "", "")>>]
    /\ NextOp(c, "poll")
    /\ UNCHANGED <<now, ncalls, token, token_expiry, uploads, tasks, args, response, locals>>
    /\ UNCHANGED apivars

\* sleep(self.poll_interval), then the loop starts over
Sleep(c) ==
    /\ pc[c] = "sleep"
    /\ Logged(c, Event("sleep", "", "", ""))
    /\ NextOp(c, "poll")
    /\ UNCHANGED <<now, ncalls, token, token_expiry, uploads, tasks, args, response, locals>>
    /\ UNCHANGED apivars

\* download_result: GET data:download, raise_for_status, response.text
DownloadResult(c) ==
    /\ pc[c] = "download"
    /\ tpc[c] = "done"
    /\ \/ \E body \in Bodies :
            /\ Logged(c, Event("download", DownloadArg(c), body, ""))
            /\ locals' = [locals EXCEPT ![c].result_data = body]
            /\ pc' = [pc EXCEPT ![c] = "convert"]
            /\ tpc' = [tpc EXCEPT ![c] = "none"]
            /\ UNCHANGED <<err, scope, retval, token_value, expiry_value, seen, nreq, raced>>
       \/ \E code \in {404, 500} :
            /\ Logged(c, Event("download", DownloadArg(c), "error", ""))
            /\ Raise(c, Error("HTTPError", code, <<>>))
    /\ UNCHANGED <<now, ncalls, token, token_expiry, uploads, tasks, args, response>>
    /\ UNCHANGED apivars

\* variant: an error while writing the dump leaves the block
DebugDumpUncaught(debug_dump) ==
    IF debug_dump = "none" THEN {[dump |-> "", err |-> NoError]}
    ELSE {[dump |-> "written", err |-> NoError],
          [dump |-> "failed", err |-> Error("OSError", NoStatus, <<debug_dump>>)]}

\* if debug_dump: try: makedirs, open, write; except Exception: logger.error.
\* The file system decides whether the dump is written; err is the exception
\* that leaves the block
DebugDump(debug_dump) ==
    IF debug_dump = "none" THEN {[dump |-> "", err |-> NoError]}
    ELSE {[dump |-> "written", err |-> NoError], [dump |-> "failed", err |-> NoError]}

\* the optional dump, _convert_to_whisper and the TranscriptionResponse create
\* returns
Convert(c) ==
    /\ pc[c] = "convert"
    /\ LoopFree(c)
    /\ \E d \in DebugDump(args[c].debug_dump) :
       LET res == IF d.err # NoError THEN [ok |-> FALSE, err |-> d.err]
                  ELSE ConvertToWhisper(locals[c].result_data, args[c].language) IN
         /\ Logged(c, Event("convert", locals[c].result_data,
                            IF res.ok THEN "ok" ELSE "error", d.dump))
         /\ IF res.ok
              THEN /\ response' = [response EXCEPT ![c] =
                                     [duration |-> res.duration, language |-> res.language,
                                      text |-> res.text, segments |-> res.segments,
                                      status |-> "DONE", task_id |-> locals[c].task_id]]
                   /\ pc' = [pc EXCEPT ![c] = "returned"]
                   /\ locals' = [locals EXCEPT ![c] = NoLocals]
                   /\ UNCHANGED <<err, tpc, scope, retval, token_value, expiry_value, seen,
                                  nreq, raced>>
              ELSE /\ Raise(c, res.err)
                   /\ UNCHANGED response
    /\ UNCHANGED <<now, ncalls, token, token_expiry, uploads, tasks, args>>
    /\ UNCHANGED apivars

CreateStep(c) ==
    \/ Validate(c)
    \/ UploadFile(c)
    \/ AsyncRecognizeValidate(c)
    \/ AsyncRecognize(c)
    \/ PollForResult(c)
    \/ Sleep(c)
    \/ DownloadResult(c)
    \/ Convert(c)

Next ==
    \/ Tick
    \/ \E c \in Transcribers, a \in CreateArgs : Create(c, a)
    \/ \E c \in Transcribers : CreateStep(c)
    \/ \E c \in Transcribers : TokenStep(c)
    \/ \E k \in 1..Len(TaskIds) : ServiceAdvance(k)

Spec == Init /\ [][Next]_vars

\* every worker thread that can take a step eventually takes one
LiveSpec == Spec /\ \A c \in Transcribers : WF_vars(CreateStep(c) \/ TokenStep(c))

\* two transcriptions.create calls on one client and one event loop, for one
\* audio file each, against a service that answers
PairArgs == {[file |-> "speech.wav", language |-> "en-US", debug_dump |-> "none"]}
\* the step of c was answered by a service in order: no request failed, the
\* OAuth endpoint issued the long-lived token, no task failed, a status answer
\* carried the status of the task and the result was the sample array
Answered(c) ==
    /\ pc'[c] # "raised"
    /\ token_value'[c] \in {NoToken, TokenNames[MaxTime + 2]}
    /\ locals'[c].result_data \in {"none", "[hello, world]"}
    /\ \A k \in 1..Len(tasks') : tasks'[k] \in {"NEW", "RUNNING", "DONE"}
    /\ log'[c] # log[c] /\ log'[c][Len(log'[c])].op = "status" =>
         log'[c][Len(log'[c])].res \in StatusValues

PairNext ==
    \/ \E c \in Calls, a \in PairArgs : Create(c, a)
    \/ \E c \in Calls : CreateStep(c) /\ Answered(c)
    \/ \E c \in Calls : TokenStep(c) /\ Answered(c)
    \/ \E k \in 1..Len(TaskIds) : ServiceAdvance(k) /\ tasks'[k] \in {"RUNNING", "DONE"}

PairSpec == Init /\ [][PairNext]_vars

TokenNext ==
    \/ Tick
    \/ \E c \in Calls, s \in Scopes : GetValidTokenCall(c, s)
    \/ \E c \in Calls : pc[c] = "get_valid_token" /\ TokenStep(c)

TokenSpec == Init /\ [][TokenNext]_vars

\* a direct caller may first fetch a token by hand, which fills the cache
ApiNext ==
    \/ Tick
    \/ \E c \in ApiCallers : ncalls[c] = 0 /\ GetValidTokenCall(c, DefaultScope)
    \/ \E c \in ApiCallers, p \in AudioParams : AsyncRecognizeCall(c, p)
    \/ \E c \in ApiCallers : AsyncRecognizeValidate(c)
    \/ \E c \in ApiCallers : TokenStep(c)
    \/ \E c \in ApiCallers : AsyncRecognize(c)
    \/ \E c \in ApiCallers, resp \in ParserResponses, st \in ExpectedStatuses :
         ParseResponseCall(c, resp, st)
    \/ \E c \in ApiCallers, e \in ParserEnvelopes, f \in RequiredFieldLists :
         ExtractResultCall(c, e, f)
    \/ \E c \in ApiCallers, h \in HypothesesCounts, mx \in Timeouts, ns \in Timeouts :
         ConfigCall(c, h, mx, ns)
    \/ \E c \in ApiCallers, b \in ConverterBodies, l \in Languages : ConvertCall(c, b, l)
    \/ \E c \in ApiCallers, f \in OutputFormats : GetWriterCall(c, f)
    \/ \E c \in ApiCallers, f \in Files, pos \in StreamPositions :
         DetectAndValidateCall(c, f, pos)
    \/ \E c \in ApiCallers, f \in DOMAIN Writers, d \in WriterInputs : WriteCall(c, f, d)
    \/ \E c \in ApiCallers, p \in AudioParams : ValidateParamsCall(c, p)
    \/ \E c \in ApiCallers, r \in OAuthResponses : RefreshTokenCall(c, r)
    \/ \E c \in ApiCallers, ms \in Timestamps, h \in BOOLEAN, m \in {".", ","} :
         FormatTimestampCall(c, ms, h, m)

ApiSpec == Init /\ [][ApiNext]_vars

(* ======================= properties of the poll loop =================== *)
StatusIdx(c) == {i \in 1..Len(log[c]) : log[c][i].op = "status"}
PollIdx(c) == {i \in 1..Len(log[c]) : log[c][i].op \in {"status", "sleep"}}
Last(q) == q[Len(q)]
NonTerminalAnswer(e) == e.op = "status" /\ e.res \notin {"DONE", "ERROR", "error"}

\* C1: a status answer ERROR ends poll_for_result at once with a
\* TaskStatusResponseError carrying the service's error_message; no status
\* query and no sleep follows it.
C1_ErrorEndsPolling ==
    \A c \in Calls : \A i \in StatusIdx(c) :
        log[c][i].res = "ERROR" =>
            /\ i = Len(log[c])
            /\ pc[c] = "raised"
            /\ err[c].type = "TaskStatusResponseError"
            /\ err[c].message[1] = "Task failed"
            /\ log[c][i].extra # Missing => err[c].message[2] = log[c][i].extra

C1_Witness ==
    \E c \in Calls :
        /\ pc[c] = "raised"
        /\ log[c] # <<>>
        /\ Last(log[c]).op = "status"
        /\ Last(log[c]).res = "ERROR"
        /\ Last(log[c]).extra = "bad audio"
        /\ Sleeps(c) >= 1

\* C2: a status answer DONE ends the polling: with a non-empty response_file_id
\* poll_for_result returns exactly that id, with a missing or empty one it
\* raises a TaskStatusResponseError.
C2_DoneReturnsFileId ==
    \A c \in Calls : \A i \in StatusIdx(c) :
        log[c][i].res = "DONE" =>
            /\ \A j \in PollIdx(c) : j <= i
            /\ IF log[c][i].extra \in {Missing, Null, ""}
                 THEN /\ i = Len(log[c])
                      /\ pc[c] = "raised"
                      /\ err[c] = TaskStatusResponseError(
                                    <<"Task completed but no response file ID found">>)
                 ELSE /\ pc[c] = "download" => locals[c].response_file_id = log[c][i].extra
                      /\ i = Len(log[c]) => \/ pc[c] = "download"
                                            \/ /\ pc[c] = "raised"
                                               /\ err[c].type # "TaskStatusResponseError"

C2_Witness ==
    \E c \in Calls :
        /\ pc[c] = "download"
        /\ Last(log[c]).res = "DONE"
        /\ locals[c].response_file_id = ResponseFileIds[1]

\* C3: after a status other than DONE and ERROR the poller sleeps and queries
\* again; however many such answers come in a row it neither returns nor
\* raises, and it returns only when the last status observed is DONE.
C3_PollsUntilTerminal ==
    \A c \in Calls :
        /\ \A i \in 1..Len(log[c]) :
             /\ NonTerminalAnswer(log[c][i]) =>
                  IF i = Len(log[c]) THEN pc[c] = "sleep" ELSE log[c][i + 1].op = "sleep"
             /\ log[c][i].op = "sleep" =>
                  IF i = Len(log[c])
                    THEN \/ pc[c] = "poll"
                         \/ pc[c] = "raised" /\ err[c].type # "TaskStatusResponseError"
                    ELSE log[c][i + 1].op = "status"
        /\ pc[c] \in {"download", "convert", "returned"} =>
             \E i \in StatusIdx(c) : log[c][i].res = "DONE" /\ \A j \in StatusIdx(c) : j <= i
        /\ pc[c] = "raised" /\ err[c].type = "TaskStatusResponseError" =>
             Last(log[c]).op = "status" /\ Last(log[c]).res \in {"DONE", "ERROR"}

C3_Witness ==
    \E c \in Calls :
        /\ Sleeps(c) = MaxPolls
        /\ pc[c] = "poll"
        /\ \E i \in StatusIdx(c) : log[c][i].res = "CANCELED"
        /\ \A i \in StatusIdx(c) : NonTerminalAnswer(log[c][i])

Polling(c) == pc[c] \in {"poll", "sleep"}
TaskOf(c) == tasks[TaskNo(locals[c].task_id)]

\* C4: once the service reports DONE or ERROR for the task, a running
\* poll_for_result eventually ends (by returning or by raising).
C4_PollTerminates ==
    \A c \in Calls :
        (Polling(c) /\ TaskOf(c) \in TerminalStatuses) ~> ~Polling(c)

C4_Witness ==
    \E c \in Calls :
        /\ pc[c] = "download"
        /\ Sleeps(c) >= 1
        /\ \E i \in StatusIdx(c) : log[c][i].res \in {"NEW", "RUNNING"}

(* ========================= properties of create ======================== *)
\* C5: the steps of one create call occur in the order validate, upload, submit,
\* poll, download, convert; submit sends the request_file_id upload returned,
\* every status query sends the task id submit returned, and download follows
\* a DONE status and sends that status's response_file_id.
C5_StepsInOrder ==
    \A c \in Calls :
        LET l == log[c] IN
        /\ l # <<>> => l[1].op = "validate"
        /\ \A i \in StatusIdx(c) : l[3].op = "submit" /\ l[i].arg = l[3].res
        /\ \A i \in 1..(Len(l) - 1) :
             LET a == l[i]
                 b == l[i + 1] IN
             CASE a.op = "validate" -> b.op = "upload"
               [] a.op = "upload"   -> b.op = "submit" /\ b.arg = a.res
               [] a.op = "submit"   -> b.op = "status"
               [] a.op = "status"   -> \/ b.op = "sleep"
                                       \/ /\ b.op = "download"
                                          /\ a.res = "DONE"
                                          /\ b.arg = a.extra
               [] a.op = "sleep"    -> b.op = "status"
               [] a.op = "download" -> b.op = "convert" /\ b.arg = a.res
               [] OTHER             -> FALSE

C5_Witness ==
    \E c \in Calls :
        /\ pc[c] = "returned"
        /\ Len(log[c]) >= 8
        /\ Last(log[c]).op = "convert"

FailedStep(e) == e.res \in {"error", "invalid"}

C6_Inv ==
    \A c \in Calls :
        LET l == log[c] IN
        /\ \A i \in 1..(Len(l) - 1) : ~FailedStep(l[i])
        /\ l # <<>> /\ FailedStep(Last(l)) => pc[c] = "raised"
        /\ pc[c] = "raised" => response[c] = NoResponse
        /\ pc[c] = "returned" => response[c] # NoResponse
        /\ response[c] # NoResponse =>
             /\ pc[c] = "returned"
             /\ response[c].status = "DONE"
             /\ l[3].op = "submit" /\ response[c].task_id = l[3].res
             /\ \E i \in StatusIdx(c) : l[i].res = "DONE"
             /\ Last(l).op = "convert"
             /\ LET body == BodyJson(Last(l).arg) IN
                  /\ body.json = "array"
                  /\ Len(response[c].segments) = Len(body.items)
                  /\ \A i \in 1..Len(body.items) :
                       body.items[i].kind = "object" /\ body.items[i].results # "empty"

C6_Step ==
    \A c \in Calls :
        pc[c] = "raised" =>
            /\ pc'[c] = "raised"
            /\ log'[c] = log[c]
            /\ response'[c] = response[c]
            /\ err'[c] = err[c]

\* C6: a failing step of create is the last step of the call and no
\* TranscriptionResponse is returned; a TranscriptionResponse is returned only
\* after DONE was observed and the whole result was converted, with status
\* "DONE" and the id of the submitted task.
C6_FailureAborts == [](C6_Inv) /\ [][C6_Step]_vars

C6_Witness ==
    \E c \in Calls :
        /\ pc[c] = "raised"
        /\ Len(log[c]) >= 5
        /\ Last(log[c]).op = "download"
        /\ Last(log[c]).res = "error"

(* ====================== properties of TokenManager ===================== *)
\* get_valid_token returns a token to caller c in this step
Returns(c) == tpc[c] = "return" /\ retval'[c] # NoToken
\* the refresh request of caller c fails in this step
RefreshFails(c) == tpc[c] = "refresh" /\ tpc'[c] = "none"
\* caller c evaluates the expiry condition against a cached expiry in this step
ChecksExpiry(c) == tpc[c] = "check_expiry" /\ tpc'[c] # "check_expiry" /\ token_expiry # NoExpiry

C7_Step ==
    \A c \in Calls :
        Returns(c) =>
            LET s == seen[c]
                cached == s.token \notin {NoToken, ""}
                future == s.expiry # NoExpiry /\ s.expiry > s.now
                past == s.expiry # NoExpiry /\ s.expiry < s.now
            IN  /\ cached /\ future =>
                     /\ nreq[c] = 0
                     /\ ~raced[c] => retval'[c] = s.token
                /\ ~cached \/ s.expiry = NoExpiry \/ past =>
                     /\ nreq[c] = 1
                     /\ ~raced[c] => retval'[c] = token_value[c]

\* C7: a get_valid_token call that finds a non-empty cached token whose expiry
\* is in the future returns it without any OAuth request; one that finds no
\* token or an expiry in the past sends exactly one refresh request and returns
\* the token it obtained (the returned value is the one named here whenever no
\* other caller wrote the cache during the call).
C7_TokenCaching == [][C7_Step]_vars

C7_Witness ==
    \E c, d \in Calls :
        /\ c # d
        /\ tpc[c] = "return"
        /\ nreq[c] = 0
        /\ seen[c].expiry > seen[c].now
        /\ seen[c].token = TokenNames[MaxTime + 2]
        /\ retval[d] = seen[c].token

\* C8: once no get_valid_token call is running, the cached (token, expiry) is
\* the pair of one single refresh response (or still the initial empty cache).
C8_NoTornUpdate ==
    (\A c \in Calls : ~InGetValidToken(c)) =>
        \/ <<token, token_expiry>> = <<NoToken, NoExpiry>>
        \/ <<token, token_expiry>> \in DeliveredPairs

C9_Step ==
    \A c \in Calls :
        RefreshFails(c) =>
            /\ token' = token
            /\ token_expiry' = token_expiry
            /\ nreq[c] = 0
            /\ pc'[c] \in {"idle", "raised"}
            /\ err'[c].type \in {"TokenRequestError", "TokenParsingError"}
            /\ err'[c].type = "TokenRequestError" =>
                 err'[c].status_code = 401 /\ err'[c].message = <<"Unauthorized">>

\* C9: a refresh that fails raises a TokenRequestError (non-200, with status
\* code and body) or a TokenParsingError (missing or unparsable field), leaves
\* the cached token and expiry as they were and is not retried.
C9_FailedRefresh == [][C9_Step]_vars

C10_Step ==
    \A c \in Calls :
        ChecksExpiry(c) =>
            /\ token_expiry <= now => tpc'[c] = "refresh"
            /\ tpc'[c] = "check_token" => token_expiry > now

\* C10: the expiry check sends the call to a refresh whenever the cached
\* expires_at is not strictly in the future (expires_at <= now, the boundary
\* included); only expires_at > now goes on to reuse the cached token.
C10_RefreshAtBoundary == [][C10_Step]_vars

(* ======================= properties of validation ====================== *)
\* detect_and_validate failed for the file caller c passed to create
ValidationFailed(c) ==
    log[c] # <<>> /\ log[c][1].op = "validate" /\ log[c][1].res = "error"

C11_Inv ==
    \A c \in Transcribers :
        /\ pc[c] \in {"idle", "validate"} =>
             /\ log[c] = <<>> /\ tpc[c] = "none"
             /\ token = NoToken /\ token_expiry = NoExpiry
             /\ uploads = 0 /\ tasks = <<>>
        /\ ValidationFailed(c) =>
             /\ log[c] = <<Event("validate", args[c].file, "error", "")>>
             /\ pc[c] = "raised" /\ err[c].type = "ValidationError"
             /\ tpc[c] = "none" /\ nreq[c] = 0
             /\ token = NoToken /\ token_expiry = NoExpiry
             /\ uploads = 0 /\ tasks = <<>>
        /\ pc[c] = "raised" /\ err[c].type = "ValidationError" => ValidationFailed(c)

C11_Step ==
    \A c \in Transcribers :
        ValidationFailed(c) =>
            UNCHANGED <<token, token_expiry, uploads, tasks, log, tpc, nreq, pc, err>>

\* C11: when detect_and_validate fails, create raises a ValidationError with
\* no network call before or after it: no token request, no upload, no task
\* submission, no status query and no download (the caller is the only user
\* of the client here, so the untouched cache and service show it).
C11_ValidationBeforeNetwork == [](C11_Inv) /\ [][C11_Step]_vars

C11_Witness ==
    \E c \in Transcribers :
        /\ args[c].file = "stereo.opus"
        /\ pc[c] = "raised"
        /\ err[c] = ValidationError(<<"Too many channels", "OPUS">>)
        /\ now = MaxTime

\* the rules of validate_params as the data model states them
MaxChannelsOf(e) == CASE e = "OPUS" -> 1 [] e = "MP3" -> 2 [] OTHER -> 8
SupportedEncodings == {"PCM_S16LE", "OPUS", "MP3", "FLAC", "ALAW", "MULAW"}
RangedEncodings == {"PCM_S16LE", "ALAW", "MULAW"}
RateAdmissible(p) == p[1] \in RangedEncodings => (8000 <= p[2] /\ p[2] <= 96000)
ChannelsAdmissible(p) == p[3] <= MaxChannelsOf(p[1])
Admissible(p) == p[1] \in SupportedEncodings /\ ChannelsAdmissible(p) /\ RateAdmissible(p)

DirectRecognize(c) == call[c].fn = "async_recognize"
\* the direct async_recognize call of c got past, resp. was stopped by, its validation
Accepted(c) ==
    /\ DirectRecognize(c)
    /\ \/ tpc[c] # "none"
       \/ pc[c] = "returned"
       \/ pc[c] = "raised" /\ err[c].type # "ValidationError"
Rejected(c) == DirectRecognize(c) /\ pc[c] = "raised" /\ err[c].type = "ValidationError"

C12_Inv ==
    \A c \in ApiCallers :
        DirectRecognize(c) /\ ~Admissible(call[c].params) =>
            /\ tpc[c] = "none" /\ nreq[c] = 0
            /\ result[c] = NoResult
            /\ pc[c] \in {"submit", "raised"}
            /\ pc[c] = "submit" => log[c] = <<>>
            /\ pc[c] = "raised" =>
                 /\ err[c].type = "ValidationError"
                 /\ log[c] = <<Event("submit", call[c].request_file_id, "invalid", "")>>

C12_Step ==
    \A c \in ApiCallers :
        DirectRecognize(c) /\ ~Admissible(call[c].params) =>
            UNCHANGED <<token, token_expiry, tasks, uploads, tpc, nreq, retval>>

\* C12: async_recognize called with inadmissible (encoding, sample_rate,
\* channels) raises a ValidationError as its first act: it requests no token
\* and sends no recognition POST, the cache and the service stay as they were.
C12_RevalidatesFirst == [](C12_Inv) /\ [][C12_Step]_vars

C12_Witness ==
    \E c \in ApiCallers :
        /\ Rejected(c)
        /\ call[c].params = <<"PCM_S16LE", 16000, 9>>
        /\ token # NoToken
        /\ token_expiry > now

\* C13: PCM_S16LE, ALAW and MULAW audio is accepted if and only if
\* 8000 <= sample_rate <= 96000 (channels being admissible); MP3, OPUS and
\* FLAC audio is accepted at every sample rate.
C13_SampleRateRange ==
    \A c \in ApiCallers :
        DirectRecognize(c) /\ call[c].params[1] \in SupportedEncodings
                           /\ ChannelsAdmissible(call[c].params) =>
            LET p == call[c].params IN
            IF p[1] \in RangedEncodings
              THEN /\ Accepted(c) => 8000 <= p[2] /\ p[2] <= 96000
                   /\ Rejected(c) => p[2] < 8000 \/ p[2] > 96000
              ELSE ~Rejected(c)

C13_Witness ==
    \E c, d \in ApiCallers :
        /\ Accepted(c)
        /\ call[c].params = <<"ALAW", 96000, 8>>
        /\ pc[d] = "returned"

C15_ParseResponse ==
    \A c \in ApiCallers :
        call[c].fn = "parse_response" =>
            LET r == call[c].response
                e == call[c].expected_status
                good == /\ r.status_code = e
                        /\ r.valid_json
                        /\ Get(r, "body_kind", "object") = "object"
                        /\ r.status = e
            IN  /\ good <=> pc[c] = "returned"
                /\ good => /\ err[c] = NoError
                           /\ result[c].fn = "parse_response"
                           /\ result[c].value.status = r.status
                           /\ result[c].value.has_result = r.has_result
                           /\ result[c].value.result = r.result
                /\ ~good => /\ pc[c] = "raised"
                            /\ err[c] # NoError
                            /\ result[c] = NoResult

C15_Witness ==
    \E c \in ApiCallers :
        /\ call[c].fn = "parse_response"
        /\ call[c].expected_status = 200
        /\ call[c].response.status_code = 200
        /\ call[c].response.valid_json
        /\ call[c].response.status = 400
        /\ pc[c] = "raised"
        /\ err[c] = Error("APIError", 400, <<"API returned error status">>)

\* C16: extract_result(envelope, required_fields) raises InvalidResponseError
\* when the envelope has no result object (absent, or not an object) or when
\* result lacks a required field, and otherwise returns result unchanged.
C16_ExtractResult ==
    \A c \in ApiCallers :
        call[c].fn = "extract_result" =>
            LET e == call[c].envelope
                f == call[c].required_fields
                bad == \/ ~e.has_result
                       \/ Get(e, "result_kind", "object") # "object"
                       \/ \E g \in f : g \notin DOMAIN e.result
            IN  /\ bad => pc[c] = "raised" /\ err[c].type = "InvalidResponseError"
                /\ ~bad => /\ pc[c] = "returned"
                           /\ result[c].fn = "extract_result"
                           /\ result[c].value = e.result

(* ================= properties of SpeechRecognitionConfig =============== *)
\* a duration string "Ns": a positive integer written in decimal digits
\* (a leading + allowed), followed by s
PositiveIntegerS(t) ==
    LET n == IF t # <<>> /\ t[1] = "+" THEN Tail(DropLast(t)) ELSE DropLast(t)
    IN  /\ t # <<>> /\ t[Len(t)] = "s"
        /\ n # <<>>
        /\ \A i \in 1..Len(n) : IsDigit(n[i])
        /\ DigitsValue(n) > 0

\* C19: constructing a SpeechRecognitionConfig raises a ValidationError if and
\* only if hypotheses_count is outside [1, 10] or one of the two timeouts is
\* not a positive integer followed by s.
C19_ConfigValidation ==
    \A c \in ApiCallers :
        call[c].fn = "SpeechRecognitionConfig" =>
            LET invalid == \/ call[c].hypotheses_count < 1
                           \/ call[c].hypotheses_count > 10
                           \/ ~PositiveIntegerS(call[c].max_speech_timeout)
                           \/ ~PositiveIntegerS(call[c].no_speech_timeout)
            IN  /\ invalid <=> (pc[c] = "raised" /\ err[c].type = "ValidationError")
                /\ ~invalid <=> pc[c] = "returned"

(* ================ properties of the service operations ================= *)
\* HTTP requests caller c has sent to the recognition service for operation op
Requests(c, op) == {i \in 1..Len(log[c]) : log[c][i].op = op /\ log[c][i].res # "invalid"}
RequestOps == {"upload", "submit", "status", "download"}
FailedRequest(e) == e.op \in RequestOps /\ e.res = "error"

\* C17: every call of upload_file, async_recognize, get_task_status and
\* download_result sends exactly one HTTP request; a request that is answered
\* with a non-2xx status or a malformed envelope is the last one of the call
\* and its error reaches the caller.
C17_OneRequestPerCall ==
    \A c \in Transcribers :
        LET l == log[c] IN
        /\ \A op \in {"upload", "submit", "download"} : Cardinality(Requests(c, op)) <= 1
        /\ pc[c] \in {"submit", "poll", "sleep", "download", "convert", "returned"} =>
             Cardinality(Requests(c, "upload")) = 1
        /\ pc[c] \in {"poll", "sleep", "download", "convert", "returned"} =>
             Cardinality(Requests(c, "submit")) = 1
        /\ pc[c] \in {"convert", "returned"} => Cardinality(Requests(c, "download")) = 1
        /\ pc[c] = "poll" => Cardinality(Requests(c, "status")) = Sleeps(c)
        /\ pc[c] \in {"sleep", "download", "convert", "returned"} =>
             Cardinality(Requests(c, "status")) = Sleeps(c) + 1
        /\ \A i \in 1..Len(l) :
             FailedRequest(l[i]) =>
                 /\ i = Len(l)
                 /\ pc[c] = "raised"
                 /\ err[c].type \in {"APIError", "InvalidResponseError", "HTTPError"}

C17_Witness ==
    \E c \in Transcribers :
        /\ pc[c] = "raised"
        /\ Len(log[c]) = 3
        /\ Last(log[c]).op = "submit"
        /\ Last(log[c]).res = "error"
        /\ err[c].type = "InvalidResponseError"

\* C18: a failed request raises the error kind of its component: an Upload
\* error from upload_file, a Submission error from async_recognize and a
\* TaskStatus error from a status query, never the generic API error.
C18_SpecificErrorKinds ==
    \A c \in Transcribers :
        log[c] # <<>> /\ FailedRequest(Last(log[c])) /\ pc[c] = "raised" =>
            CASE Last(log[c]).op = "upload" ->
                   err[c].type \in {"UploadError", "FileUploadError"}
              [] Last(log[c]).op = "submit" ->
                   err[c].type \in {"SubmissionError", "SpeechRecognitionResponseError"}
              [] Last(log[c]).op = "status" ->
                   err[c].type = "TaskStatusResponseError"
              [] OTHER -> TRUE

\* C20: after a successful submission at least one status query is sent,
\* whatever status the submission response reported, and what the poller does
\* after a status query is determined by the answer to that query alone.
C20_SubmissionStatusNotAuthoritative ==
    \A c \in Transcribers :
        LET l == log[c] IN
        Len(l) >= 3 /\ l[3].op = "submit" /\ ~FailedStep(l[3]) =>
            /\ Len(l) >= 4 => l[4].op = "status"
            /\ pc[c] \in {"download", "convert", "returned"} => StatusIdx(c) # {}
            /\ pc[c] = "raised" /\ err[c].type = "TaskStatusResponseError" => StatusIdx(c) # {}
            /\ \A i \in StatusIdx(c) :
                 LET a == l[i] IN
                 IF a.res = "error"
                   THEN i = Len(l) /\ pc[c] = "raised"
                        /\ err[c].type # "TaskStatusResponseError"
                 ELSE IF a.res = "ERROR"
                   THEN i = Len(l) /\ pc[c] = "raised"
                        /\ err[c] = TaskStatusResponseError(
                                      <<"Task failed",
                                        IF a.extra = Missing THEN "Unknown error" ELSE a.extra>>)
                 ELSE IF a.res = "DONE" /\ a.extra \in {Missing, Null, ""}
                   THEN i = Len(l) /\ pc[c] = "raised"
                        /\ err[c] = TaskStatusResponseError(
                                      <<"Task completed but no response file ID found">>)
                 ELSE IF a.res = "DONE"
                   THEN IF i = Len(l)
                          THEN \/ pc[c] = "download" /\ locals[c].response_file_id = a.extra
                               \/ pc[c] = "raised" /\ err[c].type # "TaskStatusResponseError"
                          ELSE l[i + 1].op = "download" /\ l[i + 1].arg = a.extra
                 ELSE IF i = Len(l) THEN pc[c] = "sleep" ELSE l[i + 1].op = "sleep"

C20_Witness ==
    \E c \in Transcribers :
        /\ pc[c] = "returned"
        /\ log[c][3].extra = "DONE"
        /\ log[c][4].op = "status"
        /\ log[c][4].res = "DONE"
        /\ log[c][5].op = "download"

(* ------------------------------ C24 .. C28 ------------------------------ *)
\* a direct call of _convert_to_whisper by c has returned / has raised
Converted(c) == call[c].fn = "_convert_to_whisper" /\ pc[c] = "returned"
ConvertFailed(c) == call[c].fn = "_convert_to_whisper" /\ pc[c] = "raised"
\* the elements of the array the call was given
InputItems(c) == BodyJson(call[c].json_str).items
\* the trimmed normalized_text of an element, empty when it has none
TrimmedText(item) ==
    IF item.normalized_text.kind = "str" THEN Strip(item.normalized_text.chars) ELSE <<>>

\* C24: a conversion that returns has produced exactly one segment per element
\* of the input array, in input order: segment i carries the id i (from 0) and
\* the trimmed text and the start time of element i.
C24_OneSegmentPerElement ==
    \A c \in ApiCallers :
        Converted(c) =>
            LET items == InputItems(c)
                segs == result[c].segments
            IN  /\ Len(segs) = Len(items)
                /\ \A i \in 1..Len(segs) :
                     /\ segs[i].id = i - 1
                     /\ segs[i].text = TrimmedText(items[i])
                     /\ items[i].start.ok => segs[i].start = items[i].start.ms

C24_Witness ==
    \E c \in ApiCallers :
        /\ Converted(c)
        /\ call[c].json_str = "[hello, blank, world]"
        /\ Len(result[c].segments) = 3
        /\ result[c].segments[3].id = 2
        /\ result[c].segments[3].text = <<"world">>

\* an element the converter can read: an object whose results, when present,
\* is a non-empty list
WellFormed(item) == item.kind = "object" /\ item.results \in {"list", "missing"}
WellFormedItems(items) == SelectSeq(items, WellFormed)

\* C25: a malformed element of the array (not an object, or with an empty
\* results list) is skipped and does not abort the conversion: the conversion
\* of any array returns, with the well-formed elements converted.
C25_MalformedElementSkipped ==
    \A c \in ApiCallers :
        /\ call[c].fn = "_convert_to_whisper"
        /\ pc[c] \in {"returned", "raised"}
        /\ BodyJson(call[c].json_str).json = "array"
        => /\ pc[c] = "returned"
           /\ Len(result[c].segments) = Len(WellFormedItems(InputItems(c)))

NonEmpty(t) == t # <<>>
RECURSIVE TrimmedTexts(_)
\* the trimmed texts of the elements, in input order
TrimmedTexts(items) ==
    IF items = <<>> THEN <<>> ELSE <<TrimmedText(Head(items))>> \o TrimmedTexts(Tail(items))
\* two separator spaces next to each other
DoubleSpace(t) == \E i \in 1..(Len(t) - 1) : t[i] = " " /\ t[i + 1] = " "

\* C26: the text of a conversion that returns is the trimmed texts of the
\* elements whose trimmed text is not empty, in input order, joined by one
\* space each; it never contains two consecutive separator spaces.
C26_TextJoinedBySingleSpace ==
    \A c \in ApiCallers :
        Converted(c) =>
            /\ result[c].text = Join(SelectSeq(TrimmedTexts(InputItems(c)), NonEmpty))
            /\ ~DoubleSpace(result[c].text)

\* C27: the duration of a conversion that returns is the largest end among its
\* segments (times are offsets into the audio, never negative) and 0 when
\* there is no segment; no segment ends after the duration.
C27_DurationIsMaxEnd ==
    \A c \in ApiCallers :
        Converted(c) =>
            LET segs == result[c].segments
                d == result[c].duration
            IN  /\ segs = <<>> => d = 0
                /\ segs # <<>> => \E i \in 1..Len(segs) : d = segs[i].end
                /\ \A i \in 1..Len(segs) : d >= segs[i].end

C27_Witness ==
    \E c \in ApiCallers :
        /\ Converted(c)
        /\ call[c].json_str = "[world, hello]"
        /\ result[c].duration = 2500
        /\ result[c].segments[2].end = 1200

\* C28: a conversion whose body is not parsable JSON, or is JSON but not an
\* array, raises the format error (a ValueError naming the recognition result)
\* and returns nothing.
C28_NotAnArrayFails ==
    \A c \in ApiCallers :
        /\ call[c].fn = "_convert_to_whisper"
        /\ pc[c] \in {"returned", "raised"}
        /\ BodyJson(call[c].json_str).json # "array"
        => /\ pc[c] = "raised"
           /\ err[c].type = "ValueError"
           /\ err[c].message = IF BodyJson(call[c].json_str).json = "invalid"
                                 THEN <<"Failed to parse recognition result">>
                                 ELSE <<"Unexpected recognition result format">>
           /\ result[c] = NoResult

C28_Witness ==
    \E c \in ApiCallers :
        /\ ConvertFailed(c)
        /\ call[c].json_str = "{}"
        /\ err[c].message = <<"Unexpected recognition result format">>
        /\ result[c] = NoResult

(* ------------------------------ C29 .. C30 ------------------------------ *)
\* C29: get_writer called with a format name other than txt, vtt, srt, tsv and
\* json raises a ValueError that names the unsupported value, and returns no
\* writer.
C29_UnknownFormatIsValueError ==
    \A c \in ApiCallers :
        /\ call[c].fn = "get_writer"
        /\ pc[c] \in {"returned", "raised"}
        /\ call[c].output_format \notin {"txt", "vtt", "srt", "tsv", "json"}
        => /\ pc[c] = "raised"
           /\ err[c].type = "ValueError"
           /\ err[c].message = <<call[c].output_format>>
           /\ result[c] = NoResult

\* C30: writing a TranscriptionResponse with n segments through the writer of
\* a format returns, and has written, in segment order: for tsv the header and
\* n rows with start and end in whole milliseconds; for srt n cues numbered
\* 1..n; for vtt the WEBVTT header and n cues; for json one document that is an
\* object with the text and the duration of the response.
C30_WritersRenderResponse ==
    \A c \in ApiCallers :
        /\ call[c].fn = "write_result"
        /\ pc[c] \in {"returned", "raised"}
        /\ call[c].data.kind = "TranscriptionResponse"
        => LET segs == call[c].data.segments
               n == Len(segs)
               out == result[c].output
               fmt == call[c].output_format
           IN  /\ pc[c] = "returned"
               /\ fmt = "tsv" =>
                    /\ Len(out) = n + 1 /\ out[1] = TsvHeader
                    /\ \A i \in 1..n : /\ out[i + 1].line = "row"
                                       /\ out[i + 1].start = segs[i].start
                                       /\ out[i + 1].end = segs[i].end
                                       /\ out[i + 1].text = segs[i].text
               /\ fmt = "srt" =>
                    /\ Len(out) = n
                    /\ \A i \in 1..n : /\ out[i].line = "cue" /\ out[i].number = <<i>>
                                       /\ out[i].text = segs[i].text
               /\ fmt = "vtt" =>
                    /\ Len(out) = n + 1 /\ out[1] = VttHeader
                    /\ \A i \in 1..n : /\ out[i + 1].line = "cue"
                                       /\ out[i + 1].text = segs[i].text
               /\ fmt = "json" =>
                    /\ Len(out) = 1 /\ out[1].json = "object"
                    /\ out[1].text = call[c].data.text
                    /\ out[1].duration = call[c].data.duration

(* --------------------------------- C23 ---------------------------------- *)
\* C23: detect_and_validate leaves the read position of the stream where it
\* was before the call, whether it returns the parameters, fails to detect
\* them, or detects parameters that are not valid.
C23_PositionRestored ==
    \A c \in ApiCallers :
        call[c].fn = "detect_and_validate" /\ pc[c] \in {"returned", "raised"} =>
            /\ result[c].file.name = call[c].file.name
            /\ Tell(result[c].file) = Tell(call[c].file)

C23_Witness ==
    \E c \in ApiCallers :
        /\ call[c].fn = "detect_and_validate"
        /\ call[c].file = Stream("empty.bin", 1)
        /\ pc[c] = "raised"
        /\ err[c] = ValidationError(<<"Unable to detect audio encoding">>)
        /\ Tell(result[c].file) = 1

(* ------------------------------ C21 .. C22 ------------------------------ *)
\* c is inside create
Active(c) == args[c] # NoArgs /\ pc[c] \notin {"returned", "raised"}

\* C21: a transcription that sleeps between two polls holds nothing another
\* transcription on the same event loop needs: while c sleeps, another call
\* can start and a started one can take the step it is at, on the event loop
\* or on its worker (a status query as long as it has polls left).
C21_SleepBlocksNobody ==
    \A c \in Calls : \A d \in Calls \ {c} :
        pc[c] = "sleep" =>
            /\ pc[d] = "idle" => ENABLED (\E a \in PairArgs : Create(d, a))
            /\ pc[d] = "validate" => ENABLED Validate(d)
            /\ pc[d] = "convert" => ENABLED Convert(d)
            /\ Active(d) /\ tpc[d] \notin {"none", "done"} => ENABLED TokenStep(d)
            /\ pc[d] = "upload" /\ tpc[d] = "done" => ENABLED UploadFile(d)
            /\ pc[d] = "submit" /\ tpc[d] = "done" => ENABLED AsyncRecognize(d)
            /\ pc[d] = "poll" /\ tpc[d] = "done" /\ Sleeps(d) < MaxPolls =>
                 ENABLED PollForResult(d)
            /\ pc[d] = "sleep" => ENABLED Sleep(d)
            /\ pc[d] = "download" /\ tpc[d] = "done" => ENABLED DownloadResult(d)

C21_Witness ==
    /\ pc[1] = "sleep" /\ Sleeps(1) = 0
    /\ pc[2] = "convert"
    /\ locals[1].task_id = TaskIds[1] /\ locals[2].task_id = TaskIds[2]
    /\ ENABLED Convert(2)

\* the task c submitted, once its submission is answered
Submitted(c) == Len(log[c]) >= 3 /\ log[c][3].op = "submit" /\ ~FailedStep(log[c][3])
OwnTask(c) == log[c][3].res

\* C22: two concurrent calls of create keep apart: the tasks they submit
\* differ, every status query of a call names the task that call submitted,
\* its download names the response file the service reported for that task,
\* and the response it returns carries that task's id.
C22_Inv ==
    /\ Submitted(1) /\ Submitted(2) => OwnTask(1) # OwnTask(2)
    /\ \A c \in Calls :
         LET l == log[c] IN
         /\ StatusIdx(c) # {} => Submitted(c)
         /\ \A i \in StatusIdx(c) : l[i].arg = OwnTask(c)
         /\ \A i \in 1..Len(l) :
              l[i].op = "download" =>
                  /\ l[i].arg = ResponseFileIds[TaskNo(OwnTask(c))]
                  /\ l[i - 1].op = "status" /\ l[i - 1].extra = l[i].arg
         /\ Active(c) /\ Submitted(c) => locals[c].task_id = OwnTask(c)
         /\ pc[c] = "returned" => response[c].task_id = OwnTask(c)

\* a step changes the arguments, locals, history and result of one call at most
C22_Step ==
    \A c \in Calls : \A d \in Calls \ {c} :
        <<args[c], locals[c], log[c], response[c], pc[c]>>
            # <<args'[c], locals'[c], log'[c], response'[c], pc'[c]>>
        => <<args[d], locals[d], log[d], response[d], pc[d]>>
            = <<args'[d], locals'[d], log'[d], response'[d], pc'[d]>>

C22_OwnTaskOnly == [](C22_Inv) /\ [][C22_Step]_vars

C22_Witness ==
    /\ pc[1] = "returned" /\ pc[2] = "returned"
    /\ response[1].task_id = TaskIds[2]
    /\ response[2].task_id = TaskIds[1]
    /\ \E i \in StatusIdx(1) : log[1][i].res = "RUNNING"

(* --------------------------------- C31 ---------------------------------- *)
ValidateCalled(c) == call[c].fn = "_validate_params" /\ result[c].fn = "_validate_params"

C31_Inv ==
    \A c \in ApiCallers :
        ValidateCalled(c) =>
            LET outcomes == result[c].outcomes IN
            /\ \A i \in 1..Len(outcomes) :
                 /\ outcomes[i] = outcomes[1]
                 /\ outcomes[i].ok => outcomes[i].value = call[c].params
                 /\ ~outcomes[i].ok => outcomes[i].err.type = "ValidationError"
            /\ pc[c] = (IF outcomes[Len(outcomes)].ok THEN "returned" ELSE "raised")
            /\ err[c] = outcomes[Len(outcomes)].err

C31_Step ==
    \A c \in ApiCallers :
        call'[c].fn = "_validate_params" /\ result'[c] # result[c] =>
            UNCHANGED <<now, token, token_expiry, uploads, tasks, args, locals, response,
                        log, nreq, ncalls>>

C32_RefreshStoresToken ==
    \A c \in ApiCallers :
        call[c].fn = "_refresh_token" /\ pc[c] = "returned" =>
            /\ token = result[c].token_value
            /\ token_expiry = result[c].expiry_value

(* --------------------------------- C33 ---------------------------------- *)
\* the poll loop of c was left after an answer to a status query: by the
\* return of the response file id or by an error raised on that answer
PollEndedOnAnswer(c) ==
    \/ pc[c] \in {"download", "convert", "returned"}
    \/ /\ pc[c] = "raised"
       /\ PollIdx(c) # {}
       /\ \E i \in StatusIdx(c) : \A j \in PollIdx(c) : j <= i

\* C33: every iteration of poll_for_result sends exactly one status query;
\* the loop sleeps after each answer that is neither DONE nor ERROR and never
\* after a terminal or failed one, so a run that ends (with the file id or
\* with an error on an answer) after k status queries has slept k-1 times.
C33_OneQueryPerIteration ==
    \A c \in Calls :
        LET k == Cardinality(StatusIdx(c))
            n == Len(log[c])
        IN  /\ \A i \in 1..n :
                 /\ log[c][i].op = "sleep" => i > 1 /\ NonTerminalAnswer(log[c][i - 1])
                 /\ log[c][i].op = "status" =>
                      /\ i > 1 /\ log[c][i - 1].op \in {"submit", "sleep"}
                      /\ IF NonTerminalAnswer(log[c][i])
                           THEN IF i = n THEN pc[c] = "sleep" ELSE log[c][i + 1].op = "sleep"
                           ELSE /\ i < n => log[c][i + 1].op \notin {"sleep", "status"}
                                /\ pc[c] \notin {"sleep", "poll"}
            /\ pc[c] = "poll" => Sleeps(c) = k
            /\ pc[c] = "sleep" => Sleeps(c) = k - 1
            /\ PollEndedOnAnswer(c) => k >= 1 /\ Sleeps(c) = k - 1

C33_Witness ==
    \E c \in Calls :
        /\ pc[c] = "download"
        /\ Sleeps(c) = MaxPolls
        /\ Cardinality(StatusIdx(c)) = MaxPolls + 1
        /\ \E i \in StatusIdx(c) : log[c][i].res = "RUNNING"

(* --------------------------------- C34 ---------------------------------- *)
RequestStages == {"upload", "submit", "poll", "download"}
TokenErrors == {"TokenRequestError", "TokenParsingError", "TypeError", "AssertionError"}
\* c sends a request to the recognition service in this step
SendsRequest(c) ==
    /\ Len(log'[c]) = Len(log[c]) + 1
    /\ Last(log'[c]).op \in RequestOps
    /\ Last(log'[c]).res # "invalid"
\* the get_valid_token call of the operation c is in raises in this step
TokenFails(c) == pc[c] \in RequestStages /\ InGetValidToken(c) /\ tpc'[c] = "none"

C34_Inv ==
    \A c \in Calls :
        /\ pc[c] \in RequestStages /\ tpc[c] = "done" => retval[c] # NoToken
        /\ pc[c] = "raised" /\ err[c].type \in TokenErrors =>
             /\ log[c] # <<>>
             /\ ~FailedStep(Last(log[c]))
             /\ response[c] = NoResponse

C34_Step ==
    \A c \in Calls :
        /\ SendsRequest(c) =>
             /\ pc[c] \in RequestStages
             /\ Last(log'[c]).op = (IF pc[c] = "poll" THEN "status" ELSE pc[c])
             /\ tpc[c] = "done"
             /\ retval[c] # NoToken
        /\ TokenFails(c) =>
             /\ pc'[c] = "raised"
             /\ err'[c].type \in TokenErrors
             /\ log'[c] = log[c]
             /\ uploads' = uploads /\ tasks' = tasks
        /\ pc[c] = "raised" /\ err[c].type \in TokenErrors =>
             pc'[c] = "raised" /\ err'[c] = err[c] /\ log'[c] = log[c]

\* C34: upload_file, async_recognize, get_task_status and download_result
\* each obtain a token from get_valid_token before they send their request;
\* when get_valid_token raises, the request is not sent, nothing changes at
\* the service, and the token error is the error the caller gets.
C34_TokenBeforeRequest == [](C34_Inv) /\ [][C34_Step]_vars

C34_Witness ==
    \E c \in Calls :
        /\ pc[c] = "raised"
        /\ err[c].type = "TokenRequestError"
        /\ Last(log[c]).op = "sleep"
        /\ Cardinality(Requests(c, "status")) = 1
        /\ uploads = 1

(* --------------------------------- C35 ---------------------------------- *)
C35_Inv ==
    \A c \in Calls :
        /\ nreq[c] \in {0, 1}
        /\ tpc[c] \in {"set_token", "set_expiry"} => nreq[c] = 1

C35_Step ==
    \A c \in Calls :
        /\ tpc[c] \in {"set_token", "set_expiry", "return"} =>
             tpc'[c] \notin {"check_expiry", "check_token", "refresh"}
        /\ RefreshFails(c) => nreq[c] = 0
        /\ Returns(c) /\ ~raced[c] =>
             /\ retval'[c] = token
             /\ token # NoToken /\ token_expiry # NoExpiry
             /\ token' = token /\ token_expiry' = token_expiry
             /\ nreq[c] = 1 => token = token_value[c] /\ token_expiry = expiry_value[c]
        /\ ChecksExpiry(c) /\ token_expiry < now => tpc'[c] = "refresh"

\* C35: a get_valid_token call sends at most one refresh request and never
\* retries; when no other caller wrote the cache during the call, the value it
\* returns is the cached token, token and expiry are both set, and after a
\* refresh they are the pair of that refresh even when its expires_at is
\* already in the past; a call that finds the cached expiry in the past
\* refreshes again.
C35_OneRefreshPerCall == [](C35_Inv) /\ [][C35_Step]_vars

C35_Witness ==
    \E c \in Calls :
        /\ \A d \in Calls \ {c} : ncalls[d] = 0
        /\ ncalls[c] = 2
        /\ tpc[c] = "return"
        /\ nreq[c] = 1
        /\ seen[c].expiry # NoExpiry /\ seen[c].expiry < seen[c].now
        /\ token = token_value[c]
        /\ token_expiry < now

(* --------------------------------- C36 ---------------------------------- *)
\* caller d is about to return from a call that refreshed: the cache holds
\* the token obtained for scope[d]
Obtained(d) ==
    /\ tpc[d] = "return"
    /\ nreq[d] = 1
    /\ token = token_value[d] /\ token_expiry = expiry_value[d]

C36_Step ==
    \A c \in Calls : \A s \in Scopes :
        Returns(c) /\ scope[c] = s /\ ~raced[c]
                   /\ seen[c].token \notin {NoToken, ""}
                   /\ seen[c].expiry # NoExpiry /\ seen[c].expiry > seen[c].now =>
            /\ nreq[c] = 0
            /\ retval'[c] = seen[c].token
            /\ token' = token /\ token_expiry' = token_expiry
            /\ \A d \in Calls \ {c} : Obtained(d) => retval'[c] = token_value[d]

\* C36: the cache is not keyed by scope: a get_valid_token(scope) call that
\* finds a cached token whose expiry is in the future returns that token
\* without a refresh for every scope, also for a scope other than the one
\* the token was obtained for (no other caller writing the cache meanwhile).
C36_CacheIgnoresScope == [][C36_Step]_vars

C36_Witness ==
    \E c, d \in Calls :
        /\ c # d
        /\ ncalls[c] = 1 /\ ncalls[d] = 1
        /\ Obtained(d)
        /\ scope[d] = "SALUTE_SPEECH_CORP"
        /\ tpc[c] = "return"
        /\ scope[c] = "SALUTE_SPEECH_PERS"
        /\ nreq[c] = 0 /\ ~raced[c]
        /\ seen[c].token = token_value[d]
        /\ seen[c].expiry > seen[c].now

(* --------------------------------- C37 ---------------------------------- *)
\* create of c got as far as the dump and the conversion
Dumped(c) == log[c] # <<>> /\ Last(log[c]).op = "convert"

\* C37: when the raw result cannot be dumped, create goes on as if no dump
\* had been asked for: the conversion runs, and the call returns the
\* TranscriptionResponse (or raises the conversion error) that the downloaded
\* result gives without a dump.
C37_DumpFailureSwallowed ==
    \A c \in Transcribers :
        /\ pc[c] = "returned" => Dumped(c)
        /\ Dumped(c) =>
             LET res == ConvertToWhisper(Last(log[c]).arg, args[c].language) IN
             /\ Last(log[c]).extra \in (IF args[c].debug_dump = "none"
                                          THEN {""} ELSE {"written", "failed"})
             /\ Last(log[c]).res = (IF res.ok THEN "ok" ELSE "error")
             /\ IF res.ok
                  THEN /\ pc[c] = "returned"
                       /\ response[c] = [duration |-> res.duration, language |-> res.language,
                                         text |-> res.text, segments |-> res.segments,
                                         status |-> "DONE", task_id |-> log[c][3].res]
                  ELSE /\ pc[c] = "raised"
                       /\ err[c] = res.err
                       /\ response[c] = NoResponse

C37_Witness ==
    \E c \in Transcribers :
        /\ args[c].debug_dump = "dump.json"
        /\ Dumped(c)
        /\ Last(log[c]).extra = "failed"
        /\ pc[c] = "returned"
        /\ response[c].text = <<"Hello", " ", "world">>

(* --------------------------------- C38 ---------------------------------- *)
\* C38: for a time of m >= 0 milliseconds format_timestamp prints hours,
\* minutes, seconds and milliseconds with hours * 3600000 + minutes * 60000 +
\* seconds * 1000 + milliseconds = m, minutes < 60, seconds < 60 and
\* milliseconds < 1000; the hours are printed if and only if
\* always_include_hours is set or the time is an hour or more.
C38_TimestampFields ==
    \A c \in ApiCallers :
        call[c].fn = "format_timestamp" /\ pc[c] = "returned" =>
            LET t == result[c].value
                m == call[c].ms
                hours == IF t.hours = <<>> THEN 0 ELSE t.hours[1]
            IN  /\ hours * 3600000 + t.minutes * 60000 + t.seconds * 1000 + t.milliseconds = m
                /\ hours >= 0
                /\ 0 <= t.minutes /\ t.minutes < 60
                /\ 0 <= t.seconds /\ t.seconds < 60
                /\ 0 <= t.milliseconds /\ t.milliseconds < 1000
                /\ Len(t.hours) <= 1
                /\ t.hours # <<>> <=> (call[c].always_include_hours \/ m >= 3600000)
                /\ t.marker = call[c].decimal_marker

C38_Witness ==
    \E c \in ApiCallers :
        /\ call[c].fn = "format_timestamp"
        /\ call[c].ms = 7325250
        /\ ~call[c].always_include_hours
        /\ pc[c] = "returned"
        /\ result[c].value = [hours |-> <<2>>, minutes |-> 2, seconds |-> 5, marker |-> ".",
                              milliseconds |-> 250]

====
